---- MODULE Spec2Model ----
(***************************************************************************)
(* A model of the reveald GraphQL schema generator: the type cache and the *)
(* entity-key registries of SchemaGenerator, the type derivation for       *)
(* mapping fields and sample aggregation trees, the federation SDL export  *)
(* and the _entities resolver.                                             *)
(*                                                                         *)
(* Strings are sequences of one-character strings, so that the string      *)
(* functions of the code (capitalize, ReplaceAll, Fields, Join) are        *)
(* computed and not assumed.  A GraphQL object type is a record in the     *)
(* sequence sg.types; its index is its identity (the Go pointer).          *)
(***************************************************************************)
EXTENDS Integers, Sequences, FiniteSets, TLC

VARIABLES
    config,     \* the *Config handed to NewSchemaGenerator (read-only)
    sg,         \* the SchemaGenerator: typeCache, entityKeys, sdlEntityKeys, ...
    pc,         \* position in NewSchemaGenerator / Generate / export
    pending,    \* names of the configured queries Generate has not yet visited
    queryFields,\* Generate's queryFields: query name -> type of the field
    schema,     \* the result of Generate: the root fields, or the error
    sdl,        \* the exported SDL: the _Entity union and the type declarations
    resolved,   \* the last _entities call: its representations and its result
    service,    \* the last _service resolution: its error or its SDL
    input,      \* the argument of a conversion function under study
    output      \* what the conversion function returned for input

vars == <<config, sg, pc, pending, queryFields, schema, sdl, resolved, service, input, output>>

-----------------------------------------------------------------------------
(* Strings *)

Lower == <<"a","b","c","d","e","f","g","h","i","j","k","l","m",
           "n","o","p","q","r","s","t","u","v","w","x","y","z">>
Upper == <<"A","B","C","D","E","F","G","H","I","J","K","L","M",
           "N","O","P","Q","R","S","T","U","V","W","X","Y","Z">>

IndexOf(c, seq) ==
    IF \E i \in 1..Len(seq) : seq[i] = c
    THEN CHOOSE i \in 1..Len(seq) : seq[i] = c
    ELSE 0

\* strings.ReplaceAll for a one-character pattern and replacement
ReplaceAll(s, old, new) ==
    IF Len(s) = 0 THEN <<>>
    ELSE [i \in 1..Len(s) |-> IF s[i] = old THEN new ELSE s[i]]

capitalize(s) ==
    IF Len(s) = 0 THEN s
    ELSE IF IndexOf(s[1], Lower) > 0
         THEN <<Upper[IndexOf(s[1], Lower)]>> \o Tail(s)
         ELSE s

isLetter(r) == IndexOf(r, Lower) > 0 \/ IndexOf(r, Upper) > 0

sanitizeFieldName(name) ==
    LET result == ReplaceAll(ReplaceAll(name, ".", "_"), "-", "_")
    IN  IF Len(result) > 0 /\ ~isLetter(result[1]) /\ result[1] # "_"
        THEN <<"_">> \o result
        ELSE result

\* strings.Fields: the maximal runs of non-space characters
RECURSIVE Fields(_, _)
Fields(s, word) ==
    IF Len(s) = 0 THEN (IF Len(word) = 0 THEN <<>> ELSE <<word>>)
    ELSE IF Head(s) = " "
         THEN (IF Len(word) = 0 THEN <<>> ELSE <<word>>) \o Fields(Tail(s), <<>>)
         ELSE Fields(Tail(s), Append(word, Head(s)))

RECURSIVE JoinCapitalized(_)
JoinCapitalized(words) ==
    IF Len(words) = 0 THEN <<>>
    ELSE capitalize(Head(words)) \o JoinCapitalized(Tail(words))

\* a conversion that splits on hyphens only
sanitizeTypeNameHyphens(indexName) ==
    JoinCapitalized(Fields(ReplaceAll(indexName, "-", " "), <<>>))

sanitizeTypeName(indexName) ==
    JoinCapitalized(Fields(ReplaceAll(ReplaceAll(indexName, "-", " "), "_", " "), <<>>))

-----------------------------------------------------------------------------
(* Maps (Go maps) as functions with a finite domain *)

EmptyMap == [x \in {} |-> 0]

MapPut(m, k, v) == [x \in (DOMAIN m) \cup {k} |-> IF x = k THEN v ELSE m[x]]

\* the sequences that enumerate the set S once each (a map iteration order)
Orders(S) ==
    { o \in [1..Cardinality(S) -> S] : \A i, j \in 1..Cardinality(S) : o[i] = o[j] => i = j }

-----------------------------------------------------------------------------
(* GraphQL type references: a named base type under a stack of wrappers.   *)
(* id is the object's index in sg.types, 0 for the built-in scalars and    *)
(* the package-level shared types.                                         *)

Scalar(n)  == [base |-> n, id |-> 0, wrap |-> <<>>]
ObjRef(i)  == [base |-> "Object", id |-> i, wrap |-> <<>>]
NewList(t) == [t EXCEPT !.wrap = <<"List">> \o @]
NewNonNull(t) == [t EXCEPT !.wrap = <<"NonNull">> \o @]

-----------------------------------------------------------------------------
(* The generator's heap and type cache.  st is the SchemaGenerator record  *)
(* threaded through the generation functions.  st.writes records every     *)
(* assignment to typeCache and st.derived every derivation of an           *)
(* object/nested field with properties, in program order (history only:    *)
(* no function reads them).                                                *)

\* graphql.NewObject: a fresh object; its identity is its index in st.types
NewObject(st, name, fields) ==
    [st EXCEPT !.types = Append(@, [Name |-> name, Fields |-> fields])]

LastObject(st) == Len(st.types)

\* cachedType, ok := sg.typeCache[typeName]
CacheHas(st, typeName) == typeName \in DOMAIN st.typeCache

\* sg.typeCache[typeName] = obj
CachePut(st, typeName, id) ==
    [st EXCEPT !.typeCache = MapPut(@, typeName, id),
               !.writes = Append(@, [name |-> typeName, id |-> id])]

-----------------------------------------------------------------------------
(* Mapping fields to GraphQL types *)

SObject == <<"O","b","j","e","c","t">>
SDocument == <<"D","o","c","u","m","e","n","t">>
SResult == <<"R","e","s","u","l","t">>

\* the type name esTypeToGraphQLType gives an object/nested field
objectTypeName(field, parentPath) ==
    IF parentPath = <<>>
    THEN capitalize(field.Name) \o SObject
    ELSE LET sanitizedPath ==
                 ReplaceAll(ReplaceAll(ReplaceAll(parentPath, ".", "_"), "/", "_"), "-", "_")
         IN  capitalize(sanitizedPath) \o capitalize(field.Name) \o SObject

\* the cache check of esTypeToGraphQLType
objectTypeCached(st, typeName) == CacheHas(st, typeName)

childPathOf(field, parentPath) ==
    IF parentPath = <<>> THEN field.Name ELSE parentPath \o <<".">> \o field.Name

Derived(st, field, parentPath, typeName, id, hit) ==
    [st EXCEPT !.derived = Append(@, [path |-> childPathOf(field, parentPath),
                                      name |-> field.Name, parentPath |-> parentPath,
                                      typeName |-> typeName, id |-> id, hit |-> hit])]

\* NewObject followed by sg.typeCache[typeName] = the new object;
\* r is [st, fields]; returns [st, id]
NewCachedObject(r, typeName) ==
    [st |-> CachePut(NewObject(r.st, typeName, r.fields), typeName, Len(r.st.types) + 1),
     id |-> Len(r.st.types) + 1]

\* a conversion that does not look at the type tag
esTypeToGraphQLTypeUntyped(st, field, parentPath) == [st |-> st, type |-> Scalar("String")]

RECURSIVE esTypeToGraphQLType(_, _, _)
RECURSIVE esProperties(_, _, _, _)

\* the end of the object/nested case: the object is created from the
\* converted properties r, cached and returned as a list
esNewObjectType(field, parentPath, typeName, r) ==
    [st |-> Derived(NewCachedObject(r, typeName).st, field, parentPath, typeName,
                    Len(r.st.types) + 1, FALSE),
     type |-> NewList(ObjRef(Len(r.st.types) + 1))]

\* the object/nested case for a field with properties
esObjectType(st, field, parentPath, typeName) ==
    IF objectTypeCached(st, typeName)
    THEN [st |-> Derived(st, field, parentPath, typeName, st.typeCache[typeName], TRUE),
          type |-> NewList(ObjRef(st.typeCache[typeName]))]
    ELSE esNewObjectType(field, parentPath, typeName,
                         esProperties(st, field.Properties,
                                      childPathOf(field, parentPath), EmptyMap))

\* returns [st |-> the generator afterwards, type |-> the GraphQL type]
esTypeToGraphQLType(st, field, parentPath) ==
    CASE field.Type \in {"text", "keyword"} -> [st |-> st, type |-> Scalar("String")]
      [] field.Type \in {"long", "integer", "short", "byte"} -> [st |-> st, type |-> Scalar("Int")]
      [] field.Type \in {"double", "float"} -> [st |-> st, type |-> Scalar("Float")]
      [] field.Type = "boolean" -> [st |-> st, type |-> Scalar("Boolean")]
      [] field.Type = "date" -> [st |-> st, type |-> Scalar("String")]
      [] field.Type \in {"object", "nested"} ->
            IF Len(field.Properties) = 0
            THEN [st |-> st, type |-> Scalar("String")]
            ELSE esObjectType(st, field, parentPath, objectTypeName(field, parentPath))
      [] OTHER -> [st |-> st, type |-> Scalar("String")]

\* objFields[propName] = the converted type r, then the rest of the loop
esPropertiesNext(props, childPath, objFields, r) ==
    esProperties(r.st, Tail(props), childPath, MapPut(objFields, Head(props).Name, r.type))

\* the loop over field.Properties
esProperties(st, props, childPath, objFields) ==
    IF Len(props) = 0 THEN [st |-> st, fields |-> objFields]
    ELSE esPropertiesNext(props, childPath, objFields,
                          esTypeToGraphQLType(st, Head(props), childPath))

convertFieldToGraphQL(st, field) == esTypeToGraphQLType(st, field, <<>>)

\* filter is [present, Include, Exclude]; present FALSE is the nil *FieldFilter
shouldIncludeField(fieldName, filter) ==
    IF ~filter.present THEN TRUE
    ELSE /\ (filter.Include # {} => fieldName \in filter.Include)
         /\ fieldName \notin filter.Exclude

RECURSIVE documentFields(_, _, _, _)

\* fields[fieldName] = the converted field r, then the rest of the loop
documentFieldsNext(props, filter, fields, r) ==
    documentFields(r.st, Tail(props), filter, MapPut(fields, Head(props).Name, r.type))

\* the loop over mapping.Properties of generateDocumentType
documentFields(st, props, filter, fields) ==
    IF Len(props) = 0 THEN [st |-> st, fields |-> fields]
    ELSE IF ~shouldIncludeField(Head(props).Name, filter)
         THEN documentFields(st, Tail(props), filter, fields)
         ELSE documentFieldsNext(props, filter, fields,
                                 convertFieldToGraphQL(st, Head(props)))

documentTypeName(queryConfig) ==
    IF queryConfig.HitsTypeName # <<>>
    THEN queryConfig.HitsTypeName
    ELSE sanitizeTypeName(queryConfig.Mapping.IndexName) \o SDocument

\* a generator that never finds a document type in the cache
documentTypeNeverCached(st, typeName) == FALSE

\* the cache check of generateDocumentType
documentTypeCached(st, typeName) == CacheHas(st, typeName)

\* sg.entityResolver.RegisterEntityType for a feature query (endpoint.Register
\* succeeds: the features of the query are registrable)
registerEntityType(st, queryName, queryConfig, typeName) ==
    IF st.federation /\ st.entityResolver
    THEN [st EXCEPT !.typeMappings =
              MapPut(@, typeName, [QueryName |-> queryName, UseFeatureFlow |-> TRUE,
                                   EntityKeys |-> queryConfig.EntityKeyFields])]
    ELSE st

\* registration of a query-level entity, generateDocumentType's key block
registerQueryEntity(st, queryName, queryConfig, typeName) ==
    IF Len(queryConfig.EntityKeyFields) = 0 THEN st
    ELSE registerEntityType(
             [st EXCEPT !.entityKeys = MapPut(@, typeName, queryConfig.EntityKeyFields),
                        !.sdlEntityKeys = MapPut(@, typeName, queryConfig.EntityKeyFields)],
             queryName, queryConfig, typeName)

\* an end of generateDocumentType that looks at the cache again and leaves
\* a type that is there by now in place
newDocumentTypeIfAbsent(queryName, queryConfig, typeName, r) ==
    IF CacheHas(r.st, typeName)
    THEN [st |-> r.st, id |-> r.st.typeCache[typeName]]
    ELSE [st |-> CachePut(registerQueryEntity(NewObject(r.st, typeName, r.fields),
                                              queryName, queryConfig, typeName),
                          typeName, Len(r.st.types) + 1),
          id |-> Len(r.st.types) + 1]

\* the end of generateDocumentType: NewObject from the converted fields r,
\* the entity registration and the cache write
newDocumentType(queryName, queryConfig, typeName, r) ==
    [st |-> CachePut(registerQueryEntity(NewObject(r.st, typeName, r.fields),
                                         queryName, queryConfig, typeName),
                     typeName, Len(r.st.types) + 1),
     id |-> Len(r.st.types) + 1]

documentTypeNamed(st, queryName, queryConfig, typeName) ==
    IF documentTypeCached(st, typeName)
    THEN [st |-> st, id |-> st.typeCache[typeName]]
    ELSE newDocumentType(queryName, queryConfig, typeName,
                         documentFields(st, queryConfig.Mapping.Properties,
                                        queryConfig.FieldFilter, EmptyMap))

\* returns [st, id]: the document type of a feature query
generateDocumentType(st, queryName, queryConfig) ==
    documentTypeNamed(st, queryName, queryConfig, documentTypeName(queryConfig))

SHits == <<"h","i","t","s">>
SAggregations_field == <<"a","g","g","r","e","g","a","t","i","o","n","s">>
STotalCount == <<"t","o","t","a","l","C","o","u","n","t">>

\* the <Query>Result object over the document type d; it is not cached
newResultType(queryName, d) ==
    [st |-> NewObject(d.st, capitalize(queryName) \o SResult,
                      MapPut(MapPut(EmptyMap, SHits, NewList(ObjRef(d.id))),
                             STotalCount, Scalar("Int"))),
     id |-> Len(d.st.types) + 1]

\* returns [st, id]
generateResultType(st, queryName, queryConfig) ==
    newResultType(queryName, generateDocumentType(st, queryName, queryConfig))

-----------------------------------------------------------------------------
(* Typed aggregation types from the sample request of a precompiled query. *)
(* An aggregation definition is [Name, Kinds, Filters, Aggregations]:      *)
(* Kinds the set of non-nil members of types.Aggregations, Filters the     *)
(* keyed filter names (keyed FALSE: array-based), Aggregations the         *)
(* sub-aggregations in the order the map iteration visits them.            *)
(* st.aggPath is the stack of aggregation names being visited and          *)
(* st.aggDerived the history of visited nodes.                             *)

SBucket == <<"B","u","c","k","e","t">>
SFilterBucket == <<"F","i","l","t","e","r">> \o SBucket
SAggregations == <<"A","g","g","r","e","g","a","t","i","o","n","s">>
SKey == <<"k","e","y">>
SDocCount == <<"d","o","c","_","c","o","u","n","t">>
SBuckets == <<"b","u","c","k","e","t","s">>

\* the chain taken from its end: the last populated kind wins
aggKindLast(aggDef) ==
    CASE "stats" \in aggDef.Kinds -> "stats"
      [] "cardinality" \in aggDef.Kinds -> "cardinality"
      [] aggDef.Kinds \cap {"avg", "sum", "min", "max"} # {} -> "metric"
      [] "nested" \in aggDef.Kinds -> "nested"
      [] "filter" \in aggDef.Kinds -> "filter"
      [] "filters" \in aggDef.Kinds -> "filters"
      [] "histogram" \in aggDef.Kinds -> "histogram"
      [] "date_histogram" \in aggDef.Kinds -> "date_histogram"
      [] "terms" \in aggDef.Kinds -> "terms"
      [] OTHER -> "generic"

\* the if / else-if chain of generateAggregationType
aggKind(aggDef) ==
    CASE "terms" \in aggDef.Kinds -> "terms"
      [] "date_histogram" \in aggDef.Kinds -> "date_histogram"
      [] "histogram" \in aggDef.Kinds -> "histogram"
      [] "filters" \in aggDef.Kinds -> "filters"
      [] "filter" \in aggDef.Kinds -> "filter"
      [] "nested" \in aggDef.Kinds -> "nested"
      [] aggDef.Kinds \cap {"avg", "sum", "min", "max"} # {} -> "metric"
      [] "cardinality" \in aggDef.Kinds -> "cardinality"
      [] "stats" \in aggDef.Kinds -> "stats"
      [] OTHER -> "generic"

\* typePath := pathPrefix + capitalize(aggName)
typePathOf(pathPrefix, aggName) == pathPrefix \o capitalize(aggName)

aggTypeName(queryName, typePath) == capitalize(queryName) \o typePath

bucketTypeName(queryName, typePath) == capitalize(queryName) \o typePath \o SBucket

filterBucketTypeName(queryName, typePath) ==
    capitalize(queryName) \o typePath \o SFilterBucket

\* fieldName := sanitizeFieldName(nestedName)
nestedFieldName(nestedName) == sanitizeFieldName(nestedName)

Enter(st, aggDef, queryName, typePath) ==
    [st EXCEPT !.aggPath = Append(@, aggDef.Name),
               !.aggDerived = Append(@, [path |-> Append(st.aggPath, aggDef.Name),
                                         kind |-> aggKind(aggDef),
                                         typeName |-> aggTypeName(queryName, typePath)])]

Leave(r) == [st |-> [r.st EXCEPT !.aggPath = SubSeq(@, 1, Len(@) - 1)], type |-> r.type]

\* a cached object as [st, id] and as [st, type]
CachedId(st, typeName) == [st |-> st, id |-> st.typeCache[typeName]]
CachedType(st, typeName) == [st |-> st, type |-> ObjRef(st.typeCache[typeName])]

AsType(r) == [st |-> r.st, type |-> ObjRef(r.id)]

RECURSIVE generateAggregationType(_, _, _, _)
RECURSIVE nestedAggFields(_, _, _, _, _)

\* fields[fieldName] = the generated type r, then the rest of the loop
nestedAggFieldsNext(queryName, nestedAggs, typePath, fields, r) ==
    nestedAggFields(r.st, queryName, Tail(nestedAggs), typePath,
                    MapPut(fields, nestedFieldName(Head(nestedAggs).Name), r.type))

\* the loop "for nestedName, nestedDef := range nestedAggs" of the bucket,
\* filter-bucket, filter and nested types
nestedAggFields(st, queryName, nestedAggs, typePath, fields) ==
    IF Len(nestedAggs) = 0 THEN [st |-> st, fields |-> fields]
    ELSE nestedAggFieldsNext(queryName, nestedAggs, typePath, fields,
             generateAggregationType(st, queryName, Head(nestedAggs), typePath))

BucketBaseFields ==
    MapPut(MapPut(EmptyMap, SKey, NewNonNull(Scalar("String"))),
           SDocCount, NewNonNull(Scalar("Int")))

DocCountField == MapPut(EmptyMap, SDocCount, NewNonNull(Scalar("Int")))

\* the record of a bucket type creation: its name, its object and the
\* number of sub-aggregations it was created for
BucketCreated(r, typeName, n) ==
    [st |-> [r.st EXCEPT !.buckets = Append(@, [typeName |-> typeName, id |-> r.id, n |-> n])],
     id |-> r.id]

\* returns [st, id]
generateBucketType(st, queryName, typePath, nestedAggs) ==
    IF CacheHas(st, bucketTypeName(queryName, typePath))
    THEN CachedId(st, bucketTypeName(queryName, typePath))
    ELSE BucketCreated(
             NewCachedObject(nestedAggFields(st, queryName, nestedAggs, typePath,
                                             BucketBaseFields),
                             bucketTypeName(queryName, typePath)),
             bucketTypeName(queryName, typePath), Len(nestedAggs))

\* the terms object over its bucket type b
newTermsType(typeName, b) ==
    AsType(NewCachedObject(
               [st |-> b.st,
                fields |-> MapPut(EmptyMap, SBuckets,
                                  NewNonNull(NewList(NewNonNull(ObjRef(b.id)))))],
               typeName))

\* generateTermsAggType, and its copies for date_histogram and histogram
generateTermsAggType(st, queryName, typePath, aggDef) ==
    IF CacheHas(st, aggTypeName(queryName, typePath))
    THEN CachedType(st, aggTypeName(queryName, typePath))
    ELSE newTermsType(aggTypeName(queryName, typePath),
                      generateBucketType(st, queryName, typePath, aggDef.Aggregations))

generateDateHistogramAggType(st, queryName, typePath, aggDef) ==
    generateTermsAggType(st, queryName, typePath, aggDef)

generateHistogramAggType(st, queryName, typePath, aggDef) ==
    generateTermsAggType(st, queryName, typePath, aggDef)

RECURSIVE filterFields(_, _, _)
filterFields(names, bucketId, fields) ==
    IF Len(names) = 0 THEN fields
    ELSE filterFields(Tail(names), bucketId,
                      MapPut(fields, sanitizeFieldName(Head(names)), ObjRef(bucketId)))

\* the filters object over its bucket type b, or the generic fallback
newFiltersType(typeName, aggDef, b) ==
    IF Len(aggDef.Filters.names) = 0
    THEN [st |-> b.st, type |-> Scalar("GenericAggregation")]
    ELSE AsType(NewCachedObject(
                    [st |-> b.st,
                     fields |-> filterFields(aggDef.Filters.names, b.id, EmptyMap)],
                    typeName))

filterBucketType(st, queryName, typePath, aggDef) ==
    IF CacheHas(st, filterBucketTypeName(queryName, typePath))
    THEN CachedId(st, filterBucketTypeName(queryName, typePath))
    ELSE NewCachedObject(nestedAggFields(st, queryName, aggDef.Aggregations,
                                         typePath, DocCountField),
                         filterBucketTypeName(queryName, typePath))

generateFiltersAggType(st, queryName, typePath, aggDef) ==
    IF CacheHas(st, aggTypeName(queryName, typePath))
    THEN CachedType(st, aggTypeName(queryName, typePath))
    ELSE IF ~aggDef.Filters.keyed
    THEN [st |-> st, type |-> Scalar("GenericAggregation")]
    ELSE newFiltersType(aggTypeName(queryName, typePath), aggDef,
                        filterBucketType(st, queryName, typePath, aggDef))

\* generateFilterAggType, and its copy generateNestedAggType
generateFilterAggType(st, queryName, typePath, aggDef) ==
    IF CacheHas(st, aggTypeName(queryName, typePath))
    THEN CachedType(st, aggTypeName(queryName, typePath))
    ELSE AsType(NewCachedObject(nestedAggFields(st, queryName, aggDef.Aggregations,
                                                typePath, DocCountField),
                                aggTypeName(queryName, typePath)))

generateNestedAggType(st, queryName, typePath, aggDef) ==
    generateFilterAggType(st, queryName, typePath, aggDef)

\* the dispatch of generateAggregationType on the kind that is set
aggregationTypeOfKind(st, queryName, aggDef, typePath, kind) ==
    CASE kind = "terms" -> generateTermsAggType(st, queryName, typePath, aggDef)
      [] kind = "date_histogram" -> generateDateHistogramAggType(st, queryName, typePath, aggDef)
      [] kind = "histogram" -> generateHistogramAggType(st, queryName, typePath, aggDef)
      [] kind = "filters" -> generateFiltersAggType(st, queryName, typePath, aggDef)
      [] kind = "filter" -> generateFilterAggType(st, queryName, typePath, aggDef)
      [] kind = "nested" -> generateNestedAggType(st, queryName, typePath, aggDef)
      [] kind = "metric" -> [st |-> st, type |-> Scalar("Float")]
      [] kind = "cardinality" -> [st |-> st, type |-> Scalar("Int")]
      [] kind = "stats" -> [st |-> st, type |-> Scalar("StatsValues")]
      [] OTHER -> [st |-> st, type |-> Scalar("GenericAggregation")]

aggregationTypeAt(st, queryName, aggDef, typePath) ==
    Leave(aggregationTypeOfKind(Enter(st, aggDef, queryName, typePath),
                                queryName, aggDef, typePath, aggKind(aggDef)))

generateAggregationType(st, queryName, aggDef, pathPrefix) ==
    aggregationTypeAt(st, queryName, aggDef, typePathOf(pathPrefix, aggDef.Name))

\* returns [st, id]; id 0 is the nil *graphql.Object
generateTypedAggregationsType(st, queryName, aggs) ==
    IF Len(aggs) = 0 THEN [st |-> st, id |-> 0]
    ELSE IF CacheHas(st, capitalize(queryName) \o SAggregations)
    THEN CachedId(st, capitalize(queryName) \o SAggregations)
    ELSE NewCachedObject(nestedAggFields(st, queryName, aggs, <<>>, EmptyMap),
                         capitalize(queryName) \o SAggregations)

-----------------------------------------------------------------------------
(* Precompiled queries *)

RECURSIVE precompiledDocumentFields(_, _, _)

precompiledDocumentFieldsNext(props, fields, r) ==
    precompiledDocumentFields(r.st, Tail(props), MapPut(fields, Head(props).Name, r.type))

precompiledDocumentFields(st, props, fields) ==
    IF Len(props) = 0 THEN [st |-> st, fields |-> fields]
    ELSE precompiledDocumentFieldsNext(props, fields, convertFieldToGraphQL(st, Head(props)))

\* the entity-key block of generateSimplePrecompiledResultType; d is [st, id]
registerPrecompiledEntity(d, queryConfig, docTypeName) ==
    IF Len(queryConfig.EntityKeyFields) > 0
    THEN [st |-> [d.st EXCEPT !.entityKeys = MapPut(@, docTypeName, queryConfig.EntityKeyFields)],
          id |-> d.id]
    ELSE d

precompiledDocumentType(st, queryConfig, docTypeName) ==
    IF CacheHas(st, docTypeName)
    THEN CachedId(st, docTypeName)
    ELSE registerPrecompiledEntity(
             NewCachedObject(precompiledDocumentFields(st, queryConfig.Mapping.Properties,
                                                       EmptyMap),
                             docTypeName),
             queryConfig, docTypeName)

\* the <Query>Result object over the document type d, cached
newPrecompiledResultType(typeName, aggsType, d) ==
    NewCachedObject(
        [st |-> d.st,
         fields |-> MapPut(MapPut(MapPut(EmptyMap, STotalCount, Scalar("Int")),
                                  SHits, NewList(ObjRef(d.id))),
                           SAggregations_field,
                           IF aggsType # 0 THEN ObjRef(aggsType)
                           ELSE NewList(Scalar("GenericAggregation")))],
        typeName)

\* returns [st, id]; a is the typed aggregations type as [st, id]
generateSimplePrecompiledResultType(queryName, queryConfig, a) ==
    IF CacheHas(a.st, capitalize(queryName) \o SResult)
    THEN CachedId(a.st, capitalize(queryName) \o SResult)
    ELSE newPrecompiledResultType(
             capitalize(queryName) \o SResult, a.id,
             precompiledDocumentType(a.st, queryConfig,
                 sanitizeTypeName(queryConfig.Mapping.IndexName) \o SDocument))

\* returns [st, id]: the type of the root field of a precompiled query
generatePrecompiledQueryField(st, queryName, queryConfig) ==
    generateSimplePrecompiledResultType(queryName, queryConfig,
        IF queryConfig.Aggregations.present
        THEN generateTypedAggregationsType(st, queryName, queryConfig.Aggregations.aggs)
        ELSE [st |-> st, id |-> 0])

-----------------------------------------------------------------------------
(* Configurations *)

\* upper limit on the number of configured queries (feature and precompiled)
MaxQueries == 2

SId == <<"i","d">>
SLead == <<"L","e","a","d">>
SRev == <<"R","e","v">>
SXObject == <<"X">> \o SObject

Leaf(name, type) == [Name |-> name, Type |-> type, Properties |-> <<>>]
Obj(name, type, props) == [Name |-> name, Type |-> type, Properties |-> props]

\* index "p": id, a.b.x.k and a_b.x.k
MapP ==
    [IndexName |-> <<"p">>,
     Properties |->
        << Leaf(SId, "keyword"),
           Obj(<<"a">>, "object",
               << Obj(<<"b">>, "object",
                      << Obj(<<"x">>, "nested", << Leaf(<<"k">>, "keyword") >>) >>) >>),
           Obj(<<"a","_","b">>, "object",
               << Obj(<<"x">>, "object", << Leaf(<<"k">>, "long") >>) >>) >>]

\* index "t-l": id, x.k, an object without properties, scalars
MapT ==
    [IndexName |-> <<"t","-","l">>,
     Properties |->
        << Leaf(SId, "keyword"),
           Obj(<<"x">>, "object", << Leaf(<<"k">>, "date") >>),
           Obj(<<"e">>, "object", <<>>),
           Leaf(<<"n">>, "float"),
           Leaf(<<"f">>, "boolean"),
           Leaf(<<"g">>, "geo_point") >>]

\* the custom type objects the application built before configuring the generator
CustomObjects ==
    << [Name |-> SLead, Fields |-> MapPut(EmptyMap, SId, Scalar("String"))],
       [Name |-> SLead, Fields |-> MapPut(MapPut(EmptyMap, SId, Scalar("String")),
                                          <<"n">>, Scalar("Int"))],
       [Name |-> SRev, Fields |-> MapPut(EmptyMap, SId, Scalar("ID"))] >>

CustomTypesChoices == { <<>>, <<1>> }

WithKeys(t, keys, resolvable) == [Type |-> t, EntityKeys |-> keys, Resolvable |-> resolvable]

\* CustomTypesWithKeys: at most one registration per type name
CustomTypesWithKeysChoices ==
    { <<>>,
      << WithKeys(2, <<SId>>, FALSE) >>,
      << WithKeys(2, <<SId>>, TRUE) >>,
      << WithKeys(3, <<SId>>, TRUE) >>,
      << WithKeys(3, <<>>, TRUE), WithKeys(2, <<SId, <<"n">>>>, FALSE) >> }

FeatureNames == { <<"q","a">>, <<"q","b">> }
PrecompiledNames == { <<"r","a">>, <<"r","b">> }

NoFilter == [present |-> FALSE, Include |-> {}, Exclude |-> {}]

FeatureQuery(m, hits, keys) ==
    [Mapping |-> m, HitsTypeName |-> hits, EntityKeyFields |-> keys, FieldFilter |-> NoFilter]

FeatureChoices ==
    { FeatureQuery(m[1], m[2], k) :
        m \in { <<MapP, <<>>>>, <<MapP, SLead>>, <<MapT, <<>>>>,
                <<MapT, SLead>>, <<MapT, SXObject>> },
        k \in { <<>>, <<SId>> } }

\* the sample request has no aggregations (nil map), or these
NoAggs == [present |-> FALSE, aggs |-> <<>>]
Aggs(aggs) == [present |-> TRUE, aggs |-> aggs]

\* Load is what Validate and LoadQuery make of the configured query source:
\* "ok", "invalid" (Validate fails) or "fails" (the sample query cannot be
\* loaded)
PrecompiledQuery(m, keys, aggs) ==
    [Mapping |-> m, EntityKeyFields |-> keys, Aggregations |-> aggs, Load |-> "ok"]

UnloadablePrecompiledQuery(load) ==
    [PrecompiledQuery(MapP, <<>>, NoAggs) EXCEPT !.Load = load]

Agg(name, kinds, subs) ==
    [Name |-> name, Kinds |-> kinds, Filters |-> [keyed |-> FALSE, names |-> <<>>],
     Aggregations |-> subs]

PrecompiledChoices ==
    { PrecompiledQuery(m, k, NoAggs) : m \in {MapP, MapT}, k \in { <<>>, <<SId>> } }
    \cup { PrecompiledQuery(MapT, <<>>, Aggs(<< Agg(<<"n">>, {"terms"}, <<>>) >>)) }
    \cup { UnloadablePrecompiledQuery(load) : load \in {"invalid", "fails"} }

\* the configurations with the given query names
Configs(featureNames, precompiledNames) ==
    [EnableFederation : BOOLEAN, QueryNamespace : { <<>> }, esClient : { FALSE },
     CustomTypes : CustomTypesChoices, CustomTypesWithKeys : CustomTypesWithKeysChoices,
     Queries : [featureNames -> FeatureChoices],
     PrecompiledQueries : [precompiledNames -> PrecompiledChoices]]

EmptyGenerator ==
    [typeCache |-> EmptyMap, types |-> CustomObjects,
     entityKeys |-> EmptyMap, sdlEntityKeys |-> EmptyMap,
     federation |-> FALSE, entityResolver |-> FALSE, typeMappings |-> EmptyMap,
     schemaRef |-> FALSE,
     writes |-> <<>>, derived |-> <<>>, aggPath |-> <<>>, aggDerived |-> <<>>,
     buckets |-> <<>>]

\* failedQuery and cause are the query named by, and the cause wrapped in,
\* the error of Generate
NoSchema ==
    [state |-> "none", rootFields |-> EmptyMap, union |-> {}, typeMap |-> {},
     failedQuery |-> <<>>, cause |-> ""]
NoSDL == [exported |-> FALSE, union |-> <<>>, decls |-> EmptyMap]
NoInput == [op |-> "none"]
NoOutput == [op |-> "none"]
NoService == [called |-> FALSE, err |-> FALSE, sdl |-> NoSDL]
NoCall == [called |-> FALSE, representations |-> <<>>, result |-> <<>>, err |-> FALSE]

Init ==
    /\ \E qs \in SUBSET FeatureNames, rs \in SUBSET PrecompiledNames :
          /\ Cardinality(qs) + Cardinality(rs) <= MaxQueries
          /\ config \in Configs(qs, rs)
    /\ sg = EmptyGenerator
    /\ pc = "new"
    /\ pending = {}
    /\ queryFields = EmptyMap
    /\ schema = NoSchema
    /\ sdl = NoSDL
    /\ resolved = NoCall
    /\ service = NoService
    /\ input = NoInput
    /\ output = NoOutput

-----------------------------------------------------------------------------
(* NewSchemaGenerator *)

RECURSIVE registerCustomTypes(_, _)
registerCustomTypes(st, customTypes) ==
    IF Len(customTypes) = 0 THEN st
    ELSE registerCustomTypes(
             CachePut(st, st.types[Head(customTypes)].Name, Head(customTypes)),
             Tail(customTypes))

\* a registration that ignores Resolvable: every keyed type is resolvable
registerCustomTypeAlwaysResolvable(st, c) ==
    IF Len(c.EntityKeys) > 0
    THEN [CachePut(st, st.types[c.Type].Name, c.Type) EXCEPT
              !.sdlEntityKeys = MapPut(@, st.types[c.Type].Name, c.EntityKeys),
              !.entityKeys = MapPut(@, st.types[c.Type].Name, c.EntityKeys)]
    ELSE CachePut(st, st.types[c.Type].Name, c.Type)

\* the body of the loop over config.CustomTypesWithKeys
registerCustomTypeWithKeys(st, c) ==
    LET typeName == st.types[c.Type].Name
        s1 == CachePut(st, typeName, c.Type)
    IN  IF Len(c.EntityKeys) > 0
        THEN LET s2 == [s1 EXCEPT !.sdlEntityKeys = MapPut(@, typeName, c.EntityKeys)]
             IN  IF c.Resolvable
                 THEN [s2 EXCEPT !.entityKeys = MapPut(@, typeName, c.EntityKeys)]
                 ELSE s2
        ELSE s1

RECURSIVE registerCustomTypesWithKeys(_, _)
registerCustomTypesWithKeys(st, cs) ==
    IF Len(cs) = 0 THEN st
    ELSE registerCustomTypesWithKeys(registerCustomTypeWithKeys(st, Head(cs)), Tail(cs))

NewSchemaGenerator ==
    /\ pc = "new"
    /\ LET s1 == registerCustomTypes(EmptyGenerator, config.CustomTypes)
           s2 == registerCustomTypesWithKeys(s1, config.CustomTypesWithKeys)
       IN  sg' = [s2 EXCEPT !.federation = config.EnableFederation,
                            !.entityResolver = config.EnableFederation]
    /\ pending' = DOMAIN config.Queries \cup DOMAIN config.PrecompiledQueries
    /\ pc' = "generate"
    /\ UNCHANGED <<config, queryFields, schema, sdl, resolved, service, input, output>>

-----------------------------------------------------------------------------
(* Generate: the two loops over the configured queries, one query per step *)

\* queryFields[queryName] = the generated field, of type r
FieldGenerated(queryName, r) ==
    /\ sg' = r.st
    /\ queryFields' = MapPut(queryFields, queryName, ObjRef(r.id))

GenerateQueryField(queryName) ==
    /\ pc = "generate"
    /\ queryName \in pending \cap DOMAIN config.Queries
    /\ FieldGenerated(queryName, generateResultType(sg, queryName, config.Queries[queryName]))
    /\ pending' = pending \ {queryName}
    /\ UNCHANGED <<config, pc, schema, sdl, resolved, service, input, output>>

\* a generator that ignores a query that cannot be validated or loaded
precompiledFieldErrorIgnored(queryConfig) == ""

\* the error of generatePrecompiledQueryField, "" for none
precompiledFieldError(queryConfig) ==
    CASE queryConfig.Load = "invalid" -> "invalid precompiled query config"
      [] queryConfig.Load = "fails" -> "failed to load sample query"
      [] OTHER -> ""

\* Generate returns graphql.Schema{} and "failed to generate precompiled
\* query <queryName>: <cause>"
GenerateFailed(queryName, cause) ==
    /\ schema' = [NoSchema EXCEPT !.state = "error", !.failedQuery = queryName,
                                  !.cause = cause]
    /\ pc' = "failed"
    /\ UNCHANGED <<sg, queryFields, pending>>

GeneratePrecompiledQueryField(queryName) ==
    /\ pc = "generate"
    /\ pending \cap DOMAIN config.Queries = {}
    /\ queryName \in pending \cap DOMAIN config.PrecompiledQueries
    /\ IF precompiledFieldError(config.PrecompiledQueries[queryName]) # ""
       THEN GenerateFailed(queryName,
                           precompiledFieldError(config.PrecompiledQueries[queryName]))
       ELSE /\ FieldGenerated(queryName,
                      generatePrecompiledQueryField(sg, queryName,
                                                    config.PrecompiledQueries[queryName]))
            /\ pending' = pending \ {queryName}
            /\ UNCHANGED <<pc, schema>>
    /\ UNCHANGED <<config, sdl, resolved, service, input, output>>

-----------------------------------------------------------------------------
(* Generate: federation fields, namespace, NewSchema *)

SService == <<"_","s","e","r","v","i","c","e">>
SEntities == <<"_","e","n","t","i","t","i","e","s">>

\* CreateEntityUnion: the member objects, {} for the nil union
CreateEntityUnion(entityKeys, typeCache) ==
    { typeCache[typeName] : typeName \in (DOMAIN entityKeys) \cap (DOMAIN typeCache) }

\* the objects a type reference or a set of objects leads to (graphql-go's
\* type map collection, which follows field types and union members)
RECURSIVE Reach(_, _, _)
Reach(types, frontier, seen) ==
    IF frontier \subseteq seen THEN seen
    ELSE LET new == frontier \ seen
             next == UNION { { types[i].Fields[f].id : f \in DOMAIN types[i].Fields } :
                             i \in new }
         IN  Reach(types, next \ {0}, seen \cup new)

\* graphql.NewSchema rejects two distinct types with one name
UniqueNames(types, ids) ==
    \A i, j \in ids : types[i].Name = types[j].Name => i = j

\* a namespace branch that leaves the federation fields in queryFields
RemoveNoKeys(m, ks) == m

\* the two delete(queryFields, ...) of the namespace branch
RemoveKeys(m, ks) == [x \in (DOMAIN m) \ ks |-> m[x]]

\* strings.ToLower(ns[:1]) + ns[1:]
namespaceFieldName(ns) ==
    IF IndexOf(ns[1], Upper) > 0
    THEN <<Lower[IndexOf(ns[1], Upper)]>> \o Tail(ns)
    ELSE ns

FinishGenerate ==
    /\ pc = "generate"
    /\ pending = {}
    /\ LET entityUnion == IF config.EnableFederation
                          THEN CreateEntityUnion(sg.entityKeys, sg.typeCache)
                          ELSE {}
           fed == IF ~config.EnableFederation THEN EmptyMap
                  ELSE IF entityUnion # {}
                       THEN MapPut(MapPut(EmptyMap, SService, NewNonNull(Scalar("_Service"))),
                                   SEntities, NewList(Scalar("_Entity")))
                       ELSE MapPut(EmptyMap, SService, NewNonNull(Scalar("_Service")))
           \* queryFields with the federation fields added
           all == [x \in (DOMAIN queryFields) \cup (DOMAIN fed) |->
                      IF x \in DOMAIN fed THEN fed[x] ELSE queryFields[x]]
           namespaced == config.QueryNamespace # <<>>
           \* the namespace object sees queryFields after the two deletes
           s1 == IF namespaced
                 THEN NewObject(sg, capitalize(config.QueryNamespace),
                                RemoveKeys(all, {SService, SEntities}))
                 ELSE sg
           rootQueryFields ==
                 IF namespaced
                 THEN [x \in {namespaceFieldName(config.QueryNamespace)} \cup (DOMAIN fed) |->
                          IF x \in DOMAIN fed THEN fed[x] ELSE ObjRef(LastObject(s1))]
                 ELSE all
           roots == ({ rootQueryFields[f].id : f \in DOMAIN rootQueryFields } \ {0})
                        \cup entityUnion
           typeMap == Reach(s1.types, roots, {})
       IN  IF UniqueNames(s1.types, typeMap)
           THEN /\ sg' = [s1 EXCEPT !.schemaRef = TRUE]
                /\ schema' = [NoSchema EXCEPT !.state = "ok",
                                               !.rootFields = rootQueryFields,
                                               !.union = entityUnion,
                                               !.typeMap = typeMap]
                /\ queryFields' = IF namespaced THEN RemoveKeys(all, {SService, SEntities})
                                  ELSE all
                /\ pc' = "done"
           ELSE /\ sg' = s1
                /\ schema' = [NoSchema EXCEPT !.state = "error", !.cause = "NewSchema"]
                /\ queryFields' = IF namespaced THEN RemoveKeys(all, {SService, SEntities})
                                  ELSE all
                /\ pc' = "failed"
    /\ UNCHANGED <<config, pending, sdl, resolved, service, input, output>>

-----------------------------------------------------------------------------
(* GenerateSchemaSDL: ExportFederationSDL on the generated schema *)

\* an exporter that never writes "resolvable: false"
KeyDirectivePlain(keyField, isResolvable) ==
    [fields |-> keyField, resolvableFalse |-> FALSE]

\* a @key directive: "@key(fields: \"k\", resolvable: false)" or "@key(fields: \"k\")"
KeyDirective(keyField, isResolvable) ==
    [fields |-> keyField, resolvableFalse |-> ~isResolvable]

\* the @key directives exportObjectType writes on a type declaration
exportKeyDirectives(enableFederation, entityKeyFields, isResolvable) ==
    IF enableFederation /\ Len(entityKeyFields) > 0
    THEN [i \in 1..Len(entityKeyFields) |-> KeyDirective(entityKeyFields[i], isResolvable)]
    ELSE <<>>

Lookup(m, k) == IF k \in DOMAIN m THEN m[k] ELSE <<>>

ExportFederationSDL(order) ==
    LET declared == { sg.types[i].Name : i \in schema.typeMap }
    IN  [exported |-> TRUE,
         union |-> IF config.EnableFederation /\ DOMAIN sg.entityKeys # {}
                   THEN order ELSE <<>>,
         decls |-> [typeName \in declared |->
                       exportKeyDirectives(config.EnableFederation,
                                           Lookup(sg.sdlEntityKeys, typeName),
                                           typeName \in DOMAIN sg.entityKeys)]]

GenerateSchemaSDL ==
    /\ pc = "done"
    /\ \E order \in Orders(DOMAIN sg.entityKeys) : sdl' = ExportFederationSDL(order)
    /\ pc' = "exported"
    /\ UNCHANGED <<config, sg, pending, queryFields, schema, resolved, service, input, output>>

-----------------------------------------------------------------------------

Next ==
    \/ NewSchemaGenerator
    \/ \E q \in FeatureNames : GenerateQueryField(q)
    \/ \E q \in PrecompiledNames : GeneratePrecompiledQueryField(q)
    \/ FinishGenerate
    \/ GenerateSchemaSDL

Spec == Init /\ [][Next]_vars

-----------------------------------------------------------------------------
(* Properties of the type cache and of the derivation of mapping fields *)

\* C1: whenever an object/nested field with properties is derived more than
\* once for the same field path by one generator, every derivation returns
\* the same type object.
C1_SamePathSameInstance ==
    \A i, j \in 1..Len(sg.derived) :
        sg.derived[i].path = sg.derived[j].path => sg.derived[i].id = sg.derived[j].id

\* C2: the type cache is write-once per key: no type name is ever bound to
\* a second, different type object.
C2_WriteOncePerKey ==
    \A i, j \in 1..Len(sg.writes) :
        sg.writes[i].name = sg.writes[j].name => sg.writes[i].id = sg.writes[j].id

\* C5: two object/nested fields with the same name under different parent
\* paths are given different type names.
C5_DistinctNamesAcrossPaths ==
    \A i, j \in 1..Len(sg.derived) :
        (sg.derived[i].name = sg.derived[j].name
            /\ sg.derived[i].parentPath # sg.derived[j].parentPath)
        => sg.derived[i].typeName # sg.derived[j].typeName

\* the configured queries whose field has been generated
GeneratedQueries ==
    (DOMAIN queryFields) \cap (DOMAIN config.Queries \cup DOMAIN config.PrecompiledQueries)

QueryConfigOf(q) ==
    IF q \in DOMAIN config.Queries THEN config.Queries[q] ELSE config.PrecompiledQueries[q]

\* the document type object the result type of query q refers to (hits: [Doc])
DocTypeOf(q) == sg.types[queryFields[q].id].Fields[SHits].id

\* the name under which the document type of query q is looked up
DocTypeNameOf(q) ==
    IF q \in DOMAIN config.Queries
    THEN documentTypeName(config.Queries[q])
    ELSE sanitizeTypeName(config.PrecompiledQueries[q].Mapping.IndexName) \o SDocument

C7_ResolvableKeysWithinSDLKeys ==
    DOMAIN sg.entityKeys \subseteq DOMAIN sg.sdlEntityKeys

-----------------------------------------------------------------------------
(* Properties of the federation SDL *)

Range(seq) == { seq[i] : i \in 1..Len(seq) }

\* the registrations of config.CustomTypesWithKeys that carry entity keys
KeyedCustomTypes ==
    { c \in Range(config.CustomTypesWithKeys) : Len(c.EntityKeys) > 0 }

CustomTypeName(c) == CustomObjects[c.Type].Name

\* C8: with federation enabled, a custom type registered with entity keys is
\* listed in the exported _Entity union exactly when it is registered with
\* Resolvable = TRUE.
C8_UnionIffResolvable ==
    (sdl.exported /\ config.EnableFederation)
    => \A c \in KeyedCustomTypes : (CustomTypeName(c) \in Range(sdl.union)) <=> c.Resolvable

\* an SDL was exported with federation enabled whose _Entity union is not
\* empty and leaves out a type registered with keys and Resolvable = FALSE
C8_Witness ==
    /\ sdl.exported
    /\ config.EnableFederation
    /\ sdl.union # <<>>
    /\ \E c \in KeyedCustomTypes : ~c.Resolvable /\ CustomTypeName(c) \notin Range(sdl.union)

\* the @key directives the claim expects on the declaration of c
ExpectedKeyDirectives(c) ==
    [i \in 1..Len(c.EntityKeys) |->
        [fields |-> c.EntityKeys[i], resolvableFalse |-> ~c.Resolvable]]

\* C9: with federation enabled, the SDL declaration of a custom type
\* registered with entity keys carries one @key directive per key, with
\* "resolvable: false" when the type is registered with Resolvable = FALSE
\* and without it when it is registered with Resolvable = TRUE.
C9_KeyDirectiveForm ==
    (sdl.exported /\ config.EnableFederation)
    => \A c \in KeyedCustomTypes :
           CustomTypeName(c) \in DOMAIN sdl.decls
           => sdl.decls[CustomTypeName(c)] = ExpectedKeyDirectives(c)

\* an exported SDL declares a type registered with two keys and
\* Resolvable = FALSE
C9_Witness ==
    /\ sdl.exported
    /\ config.EnableFederation
    /\ \E c \in KeyedCustomTypes :
          /\ ~c.Resolvable
          /\ Len(c.EntityKeys) > 1
          /\ CustomTypeName(c) \in DOMAIN sdl.decls

-----------------------------------------------------------------------------
(* Sample aggregation trees: one precompiled query whose sample request    *)
(* carries a tree of aggregations.                                         *)

\* upper limit on the number of sub-aggregations of the fan samples
MaxSubAggs == 2

Terms(name, subs) == Agg(name, {"terms"}, subs)
Metric(name) == Agg(name, {"avg"}, <<>>)
Filters(name, names, subs) ==
    [Name |-> name, Kinds |-> {"filters"}, Filters |-> [keyed |-> TRUE, names |-> names],
     Aggregations |-> subs]

ChainNames == { <<"a">>, <<"B">>, <<"a","B">>, <<"n">> }

\* two root aggregations: x > n and y > z > n > m
ChainSamples ==
    { << Terms(t[1], << Terms(<<"n">>, <<>>) >>),
         Terms(t[2], << Terms(t[3], << Terms(<<"n">>, << Metric(<<"m">>) >>) >>) >>) >> :
        t \in { t \in ChainNames \X ChainNames \X ChainNames : t[1] # t[2] } }

Reverse(seq) == [i \in 1..Len(seq) |-> seq[Len(seq) + 1 - i]]

SubAggNames == { <<"a",".","b">>, <<"a","-","b">>, <<"a","_","b">>, <<"m">>, <<"1","x">> }

\* one terms aggregation with up to MaxSubAggs sub-aggregations
FanSamples ==
    { << Terms(<<"t">>, [i \in 1..Len(names) |-> Metric(names[i])]) >> :
        names \in UNION { Orders(S) : S \in { S \in SUBSET SubAggNames :
                                               Cardinality(S) <= MaxSubAggs } } }

\* one root aggregation of every kind, with one sub-aggregation
KindSamples ==
    { << Agg(<<"n">>, ks, << Terms(<<"n">>, <<>>) >>) >> :
        ks \in { {"date_histogram"}, {"histogram"}, {"filter"}, {"nested"}, {"sum"},
                 {"cardinality"}, {"stats"}, {"geo_bounds"}, {"avg", "terms"},
                 {"filters"}, {"nested", "stats"} } }
    \cup { << Filters(<<"n">>, names, << Terms(<<"n">>, <<>>) >>) >> :
             names \in { <<>>, << <<"f",".","1">>, <<"f","-","1">> >>, << <<"o">> >> } }

AggSamples ==
    ChainSamples \cup { Reverse(c) : c \in ChainSamples } \cup FanSamples \cup KindSamples

SampleQuery == <<"r","a">>

InitAgg ==
    /\ \E aggs \in AggSamples, ns \in { <<>>, <<"s">> } :
          config = [EnableFederation |-> FALSE, QueryNamespace |-> ns, esClient |-> FALSE,
                    CustomTypes |-> <<>>, CustomTypesWithKeys |-> <<>>,
                    Queries |-> EmptyMap,
                    PrecompiledQueries |->
                        [q \in {SampleQuery} |-> PrecompiledQuery(MapT, <<>>, Aggs(aggs))]]
    /\ sg = EmptyGenerator
    /\ pc = "new"
    /\ pending = {}
    /\ queryFields = EmptyMap
    /\ schema = NoSchema
    /\ sdl = NoSDL
    /\ resolved = NoCall
    /\ service = NoService
    /\ input = NoInput
    /\ output = NoOutput

NextAgg ==
    \/ NewSchemaGenerator
    \/ \E q \in PrecompiledNames : GeneratePrecompiledQueryField(q)
    \/ FinishGenerate

SpecAgg == InitAgg /\ [][NextAgg]_vars

\* the sample aggregations of the query, once its field is generated
SampleAggs ==
    IF SampleQuery \in DOMAIN queryFields
          /\ SampleQuery \in DOMAIN config.PrecompiledQueries
    THEN config.PrecompiledQueries[SampleQuery].Aggregations.aggs
    ELSE <<>>

\* the root-to-node name paths of the terms aggregations of a tree
RECURSIVE TermsPaths(_, _)
TermsPaths(aggs, prefix) ==
    IF Len(aggs) = 0 THEN {}
    ELSE (IF aggKind(Head(aggs)) = "terms" THEN { Append(prefix, Head(aggs).Name) } ELSE {})
         \cup TermsPaths(Head(aggs).Aggregations, Append(prefix, Head(aggs).Name))
         \cup TermsPaths(Tail(aggs), prefix)

\* the object holding the fields of the sub-aggregations of object t: its
\* bucket type when it has buckets, otherwise t itself
ContainerOf(t) ==
    IF SBuckets \in DOMAIN sg.types[t].Fields THEN sg.types[t].Fields[SBuckets].id ELSE t

\* the object that types the aggregation at the name path, found by
\* following the generated fields from the object container; 0 if none
RECURSIVE TypeAt(_, _)
TypeAt(container, path) ==
    IF container = 0 \/ sanitizeFieldName(Head(path)) \notin DOMAIN sg.types[container].Fields
    THEN 0
    ELSE IF Len(path) = 1
         THEN sg.types[container].Fields[sanitizeFieldName(Head(path))].id
         ELSE IF sg.types[container].Fields[sanitizeFieldName(Head(path))].id = 0 THEN 0
         ELSE TypeAt(ContainerOf(sg.types[container].Fields[sanitizeFieldName(Head(path))].id),
                     Tail(path))

\* the typed aggregations object of the sample query
SampleAggregationsType ==
    sg.types[queryFields[SampleQuery].id].Fields[SAggregations_field].id

\* C3: two terms aggregations of one sample tree that have the same name
\* and sit at different depths are typed by different objects with
\* different names.
C3_SameNameDifferentDepth ==
    \A p1, p2 \in TermsPaths(SampleAggs, <<>>) :
        (p1[Len(p1)] = p2[Len(p2)] /\ Len(p1) # Len(p2))
        => /\ TypeAt(SampleAggregationsType, p1) # TypeAt(SampleAggregationsType, p2)
           /\ sg.types[TypeAt(SampleAggregationsType, p1)].Name
                  # sg.types[TypeAt(SampleAggregationsType, p2)].Name

\* C4: a bucket type created for N sub-aggregations has exactly N fields
\* besides key and doc_count.
C4_BucketFieldCount ==
    \A i \in 1..Len(sg.buckets) :
        Cardinality((DOMAIN sg.types[sg.buckets[i].id].Fields) \ {SKey, SDocCount})
            = sg.buckets[i].n

-----------------------------------------------------------------------------
(* The _entities resolver.  A representation is [form, typename, fields]:  *)
(* form "map" is a decoded object, "json" a string holding a JSON object,  *)
(* "badjson" any other string and "number" any other value; typename is    *)
(* its __typename (<<>>: absent or empty) and fields the names of its      *)
(* other members.  es is what Elasticsearch answers to the entity query:   *)
(* "error", "not_found" or "found" (a hit that carries its _source).       *)
(* The configured queries have no RequestInterceptor and no                *)
(* RootQueryBuilder.                                                       *)

\* upper limit on the length of the representations list of one call
MaxReps == 2

SPDocument == <<"P">> \o SDocument
SNope == <<"N","o","p","e">>
SError == <<"E","r","r","o","r">>

Repr(form, typename, fields, es) ==
    [form |-> form, typename |-> typename, fields |-> fields, es |-> es]

Representations ==
    { Repr("map", SPDocument, {SId}, "found"),
      Repr("json", SPDocument, {SId}, "not_found"),
      Repr("map", SPDocument, {SId}, "error"),
      Repr("map", SLead, {SId, <<"n">>}, "found"),
      Repr("map", SLead, {SId}, "found"),
      Repr("map", SNope, {SId}, "found"),
      Repr("map", <<>>, {SId}, "found"),
      Repr("number", <<>>, {}, "found"),
      Repr("badjson", <<>>, {}, "found") }

RepresentationLists == UNION { [1..n -> Representations] : n \in 0..MaxReps }

Failure(message) == [kind |-> "error", typename |-> <<>>, message |-> message]
NoEntity == [kind |-> "nil", typename |-> <<>>, message |-> ""]
Entity(typename) == [kind |-> "entity", typename |-> typename, message |-> ""]

\* ParseEntityRepresentation: "" when the representation parses
ParseEntityRepresentation(repr) ==
    CASE repr.form = "badjson" -> "representation is not a valid object"
      [] repr.form \notin {"map", "json"} -> "representation must be an object"
      [] repr.typename = <<>> -> "representation missing __typename field"
      [] OTHER -> ""

\* buildEntityQuery: "" when the query can be built
buildEntityQuery(typeMapping, fields) ==
    IF Len(typeMapping.EntityKeys) = 0 THEN "entity has no key fields defined"
    ELSE IF \E i \in 1..Len(typeMapping.EntityKeys) : typeMapping.EntityKeys[i] \notin fields
         THEN "missing key field"
         ELSE ""

\* resolveWithTypedQuery, for the answer es of Elasticsearch
resolveWithTypedQuery(esClient, typename, es) ==
    IF ~esClient THEN Failure("ES client not configured")
    ELSE CASE es = "error" -> Failure("ES query failed")
           [] es = "not_found" -> NoEntity
           [] OTHER -> Entity(typename)

resolveEntity(typeMappings, esClient, repr) ==
    IF ParseEntityRepresentation(repr) # ""
    THEN Failure("failed to parse representation")
    ELSE IF repr.typename \notin DOMAIN typeMappings
    THEN Failure("unknown entity type")
    ELSE IF buildEntityQuery(typeMappings[repr.typename], repr.fields) # ""
    THEN Failure("failed to build entity query")
    ELSE resolveWithTypedQuery(esClient, repr.typename, repr.es)

\* a loop that drops the failed representations instead of reporting them
appendResultSilent(results, r) ==
    IF r.kind = "entity" THEN Append(results, [typename |-> r.typename, message |-> ""])
    ELSE results

\* the body of the loop of ResolveEntities for the resolution r of one representation
appendResult(results, r) ==
    CASE r.kind = "error" -> Append(results, [typename |-> SError, message |-> r.message])
      [] r.kind = "entity" -> Append(results, [typename |-> r.typename, message |-> ""])
      [] OTHER -> results

RECURSIVE resolveAll(_, _, _, _)
resolveAll(typeMappings, esClient, representations, results) ==
    IF Len(representations) = 0 THEN results
    ELSE resolveAll(typeMappings, esClient, Tail(representations),
                    appendResult(results,
                                 resolveEntity(typeMappings, esClient, Head(representations))))

\* the resolver of the _entities field, called on a generated schema
ResolveEntities(isList, representations) ==
    /\ pc = "done"
    /\ SEntities \in DOMAIN schema.rootFields
    /\ resolved' =
          IF ~isList
          THEN [called |-> TRUE, representations |-> <<>>, result |-> <<>>, err |-> TRUE]
          ELSE [called |-> TRUE, representations |-> representations,
                result |-> resolveAll(sg.typeMappings, config.esClient, representations, <<>>),
                err |-> FALSE]
    /\ UNCHANGED <<config, sg, pc, pending, queryFields, schema, sdl, service, input, output>>

EntityConfigs ==
    { [EnableFederation |-> TRUE, QueryNamespace |-> <<>>, esClient |-> c,
       CustomTypes |-> <<>>, CustomTypesWithKeys |-> <<>>,
       Queries |-> q, PrecompiledQueries |-> EmptyMap] :
        c \in BOOLEAN,
        q \in { [n \in {<<"q","a">>} |-> FeatureQuery(MapP, <<>>, <<SId>>)],
                [n \in {<<"q","a">>, <<"q","b">>} |->
                    IF n = <<"q","a">> THEN FeatureQuery(MapP, <<>>, <<SId>>)
                    ELSE FeatureQuery(MapT, SLead, <<SId, <<"n">>>>)] } }

InitEntities ==
    /\ config \in EntityConfigs
    /\ sg = EmptyGenerator
    /\ pc = "new"
    /\ pending = {}
    /\ queryFields = EmptyMap
    /\ schema = NoSchema
    /\ sdl = NoSDL
    /\ resolved = NoCall
    /\ service = NoService
    /\ input = NoInput
    /\ output = NoOutput

NextEntities ==
    \/ NewSchemaGenerator
    \/ \E q \in FeatureNames : GenerateQueryField(q)
    \/ FinishGenerate
    \/ \E reps \in RepresentationLists : ResolveEntities(TRUE, reps)
    \/ ResolveEntities(FALSE, <<>>)

SpecEntities == InitEntities /\ [][NextEntities]_vars

\* a representation the resolver cannot resolve: it does not parse, names
\* no registered entity type, lacks a key field, or its query fails
Failing(repr) ==
    \/ repr.form \notin {"map", "json"}
    \/ repr.typename \notin DOMAIN sg.typeMappings
    \/ \E i \in 1..Len(sg.typeMappings[repr.typename].EntityKeys) :
           sg.typeMappings[repr.typename].EntityKeys[i] \notin repr.fields
    \/ ~config.esClient
    \/ repr.es = "error"

\* what the claim expects in the result list for the representations: an
\* element named Error for a failing one, the entity for a found one
RECURSIVE ExpectedTypenames(_)
ExpectedTypenames(representations) ==
    IF Len(representations) = 0 THEN <<>>
    ELSE (IF Failing(Head(representations)) THEN << SError >>
          ELSE IF Head(representations).es = "found"
               THEN << Head(representations).typename >>
               ELSE <<>>)
         \o ExpectedTypenames(Tail(representations))

\* C10: an _entities call on a list of representations returns without an
\* error; its result list holds, in order, an error-shaped element
\* (__typename "Error") for every failing representation and the resolved
\* entity for every representation that is found.
C10_PartialResults ==
    (resolved.called /\ ~resolved.err)
    => /\ Len(resolved.result) = Len(ExpectedTypenames(resolved.representations))
       /\ \A i \in 1..Len(resolved.result) :
             resolved.result[i].typename = ExpectedTypenames(resolved.representations)[i]

\* a call with a found entity followed by an unknown __typename returned
\* the entity and an error-shaped element
C10_Witness ==
    /\ resolved.called
    /\ ~resolved.err
    /\ Len(resolved.representations) = 2
    /\ resolved.representations[1] = Repr("map", SPDocument, {SId}, "found")
    /\ resolved.representations[2].typename = SNope
    /\ Len(resolved.result) = 2
    /\ resolved.result[1].typename = SPDocument
    /\ resolved.result[2].typename = SError

\* the element a null entity would be in the result list
NullEntity == [typename |-> <<>>, message |-> ""]

\* C11: the result of an _entities call holds one element per
\* representation, and the element of a representation that parses, names a
\* registered entity type, carries its keys and matches no document is null.
C11_NotFoundIsNull ==
    (resolved.called /\ ~resolved.err)
    => \A i \in 1..Len(resolved.representations) :
          (~Failing(resolved.representations[i])
             /\ resolved.representations[i].es = "not_found")
          => /\ i <= Len(resolved.result)
             /\ Len(resolved.result) = Len(resolved.representations)
             /\ resolved.result[i] = NullEntity

-----------------------------------------------------------------------------
(* Failures of Generate.  The derivation of a feature query has no failing *)
(* path: esTypeToGraphQLType returns a nil error on every branch, so the   *)
(* failures are those of Validate and LoadQuery of a precompiled query.    *)

\* the configured queries whose field cannot be derived
UnderivableQueries ==
    { q \in DOMAIN config.PrecompiledQueries : config.PrecompiledQueries[q].Load # "ok" }

\* C12: no schema is produced when some configured query cannot be derived,
\* no such query is ever passed over by the generation loop, and the error
\* of Generate names a query that cannot be derived and wraps its cause.
C12_FailureAbortsGenerate ==
    /\ schema.state = "ok" => UnderivableQueries = {}
    /\ pc = "generate" => UnderivableQueries \subseteq pending
    /\ (pc = "failed" /\ UnderivableQueries # {})
       => /\ schema.state = "error"
          /\ schema.rootFields = EmptyMap
          /\ schema.failedQuery \in UnderivableQueries
          /\ schema.cause =
                (IF config.PrecompiledQueries[schema.failedQuery].Load = "invalid"
                 THEN "invalid precompiled query config"
                 ELSE "failed to load sample query")

\* Generate failed on the second precompiled query, after the first was derived
C12_Witness ==
    /\ pc = "failed"
    /\ schema.failedQuery \in UnderivableQueries
    /\ DOMAIN queryFields # {}
    /\ Cardinality(DOMAIN config.PrecompiledQueries) = 2

-----------------------------------------------------------------------------
(* Query namespace with federation *)

NamespaceChoices == { <<"s">>, <<"S","h">> }

NamespaceConfigs ==
    { [c EXCEPT !.QueryNamespace = ns] :
        c \in { c \in Configs({<<"q","a">>}, {<<"r","a">>})
                      \cup Configs({<<"q","a">>, <<"q","b">>}, {}) :
                  c.EnableFederation /\ c.CustomTypes = <<>> },
        ns \in NamespaceChoices }

InitNamespace ==
    /\ config \in NamespaceConfigs
    /\ sg = EmptyGenerator
    /\ pc = "new"
    /\ pending = {}
    /\ queryFields = EmptyMap
    /\ schema = NoSchema
    /\ sdl = NoSDL
    /\ resolved = NoCall
    /\ service = NoService
    /\ input = NoInput
    /\ output = NoOutput

NextNamespace ==
    \/ NewSchemaGenerator
    \/ \E q \in FeatureNames : GenerateQueryField(q)
    \/ \E q \in PrecompiledNames : GeneratePrecompiledQueryField(q)
    \/ FinishGenerate

SpecNamespace == InitNamespace /\ [][NextNamespace]_vars

ConfiguredQueries == DOMAIN config.Queries \cup DOMAIN config.PrecompiledQueries

\* the fields of the namespace type of the generated schema
NamespaceFields ==
    DOMAIN sg.types[schema.rootFields[namespaceFieldName(config.QueryNamespace)].id].Fields

\* C13: in a schema generated with a namespace and federation, _service
\* (and _entities, which exists when the entity union does) is a field of
\* the root Query type and not of the namespace type, and every configured
\* query is a field of the namespace type and not of the root.
C13_FederationFieldsAtRoot ==
    (schema.state = "ok" /\ config.QueryNamespace # <<>> /\ config.EnableFederation)
    => /\ SService \in DOMAIN schema.rootFields
       /\ (schema.union # {}) <=> (SEntities \in DOMAIN schema.rootFields)
       /\ NamespaceFields \cap {SService, SEntities} = {}
       /\ ConfiguredQueries \subseteq NamespaceFields
       /\ ConfiguredQueries \cap DOMAIN schema.rootFields = {}

\* a namespaced federated schema with an entity union and two queries
C13_Witness ==
    /\ schema.state = "ok"
    /\ config.QueryNamespace = <<"S","h">>
    /\ config.EnableFederation
    /\ SEntities \in DOMAIN schema.rootFields
    /\ Cardinality(ConfiguredQueries) = 2
    /\ namespaceFieldName(config.QueryNamespace) = <<"s","h">>

-----------------------------------------------------------------------------
(* The _service resolver.  Its closure is created in the federation branch *)
(* of Generate and reads the schemaRef cell when it is called.             *)

\* a resolver that exports whatever the cell holds
schemaRefSet(st) == TRUE

\* schemaRef.schema != nil
schemaRefPopulated(st) == st.schemaRef

ServiceError == [called |-> TRUE, err |-> TRUE, sdl |-> NoSDL]

ServiceResolve ==
    /\ config.EnableFederation
    /\ SService \in (DOMAIN queryFields) \cup (DOMAIN schema.rootFields)
    /\ IF ~schemaRefPopulated(sg)
       THEN service' = ServiceError
       ELSE \E order \in Orders(DOMAIN sg.entityKeys) :
               service' = [called |-> TRUE, err |-> FALSE, sdl |-> ExportFederationSDL(order)]
    /\ UNCHANGED <<config, sg, pc, pending, queryFields, schema, sdl, resolved, input, output>>

ServiceConfigs ==
    { c \in Configs({<<"q","a">>}, {}) \cup Configs({<<"q","a">>}, {<<"r","a">>}) :
        c.EnableFederation }

InitService ==
    /\ config \in ServiceConfigs
    /\ sg = EmptyGenerator
    /\ pc = "new"
    /\ pending = {}
    /\ queryFields = EmptyMap
    /\ schema = NoSchema
    /\ sdl = NoSDL
    /\ resolved = NoCall
    /\ service = NoService
    /\ input = NoInput
    /\ output = NoOutput

NextService ==
    \/ NewSchemaGenerator
    \/ \E q \in FeatureNames : GenerateQueryField(q)
    \/ \E q \in PrecompiledNames : GeneratePrecompiledQueryField(q)
    \/ FinishGenerate
    \/ ServiceResolve

SpecService == InitService /\ [][NextService]_vars

\* C14: the schemaRef cell is populated exactly when Generate has produced
\* the schema; a _service resolution made while the cell is empty returns
\* an error and no SDL, and one made after a successful Generate returns
\* the SDL that declares the types of the generated schema.
C14_SchemaRefAfterSchema ==
    /\ sg.schemaRef <=> schema.state = "ok"
    /\ (service.called /\ schema.state # "ok") => (service.err /\ ~service.sdl.exported)
    /\ (service.called /\ schema.state = "ok")
       => /\ ~service.err
          /\ service.sdl.exported
          /\ DOMAIN service.sdl.decls = { sg.types[i].Name : i \in schema.typeMap }

\* _service was resolved on a generator whose Generate failed in NewSchema
C14_WitnessEmpty ==
    /\ service.called
    /\ service.err
    /\ pc = "failed"
    /\ ~sg.schemaRef

-----------------------------------------------------------------------------
(* convertQueryInput and convertAggsInput.  An ESQueryInput is            *)
(* [leaf, bool, nested]: leaf the set of its non-nil leaf kinds, bool and  *)
(* nested its Bool and Nested members, each with a present flag; clauses   *)
(* stands for the Must, Should, Filter and MustNot lists in that order and *)
(* query holds the one inner query of a nested query.                      *)

\* upper limit on the number of clauses of a bool query input
MaxClauses == 2

\* a generator at rest, for the specifications of the pure functions
EmptyConfig ==
    [EnableFederation |-> FALSE, QueryNamespace |-> <<>>, esClient |-> FALSE,
     CustomTypes |-> <<>>, CustomTypesWithKeys |-> <<>>,
     Queries |-> EmptyMap, PrecompiledQueries |-> EmptyMap]

AtRest ==
    /\ config = EmptyConfig
    /\ sg = EmptyGenerator
    /\ pc = "new"
    /\ pending = {}
    /\ queryFields = EmptyMap
    /\ schema = NoSchema
    /\ sdl = NoSDL
    /\ resolved = NoCall
    /\ service = NoService

Absent == [present |-> FALSE, clauses |-> <<>>, query |-> <<>>]
BoolInput(clauses) == [present |-> TRUE, clauses |-> clauses, query |-> <<>>]
NestedInput(q) == [present |-> TRUE, clauses |-> <<>>, query |-> <<q>>]
QueryInput(leaf, bool, nested) == [leaf |-> leaf, bool |-> bool, nested |-> nested]

SeqsUpTo(S, n) == UNION { [1..k -> S] : k \in 0..n }

QueryInputs0 ==
    { QueryInput(leaf, b, Absent) :
        leaf \in { {}, {"term"}, {"term", "exists"} }, b \in { Absent, BoolInput(<<>>) } }

QueryInputs1 ==
    { QueryInput(leaf, b, n) :
        leaf \in { {}, {"term"} },
        b \in {Absent} \cup { BoolInput(c) : c \in SeqsUpTo(QueryInputs0, MaxClauses) },
        n \in {Absent} \cup { NestedInput(q) : q \in QueryInputs0 } }

QueryInputs2 ==
    { QueryInput({}, BoolInput(<<q>>), Absent) : q \in QueryInputs1 }
    \cup { QueryInput({}, Absent, NestedInput(q)) : q \in QueryInputs1 }

QueryInputs == QueryInputs0 \cup QueryInputs1 \cup QueryInputs2

\* a conversion that counts no kinds
fieldsSetUnchecked(in) == 1

\* the number of kinds convertQueryInput counts in fieldsSet
fieldsSet(in) ==
    Cardinality(in.leaf) + (IF in.bool.present THEN 1 ELSE 0)
                         + (IF in.nested.present THEN 1 ELSE 0)

ConvertError(message) ==
    [err |-> message, panic |-> FALSE, kinds |-> {}, clauses |-> <<>>, query |-> <<>>]

\* the call does not return: a nil *types.Query was dereferenced
ConvertPanic ==
    [err |-> "", panic |-> TRUE, kinds |-> {}, clauses |-> <<>>, query |-> <<>>]

RECURSIVE convertQueryInput(_)
RECURSIVE convertClauses(_, _)

\* the loops over Must, Should, Filter and MustNot: the error of the first
\* clause that fails, or the converted clauses
convertClauses(clauses, done) ==
    IF Len(clauses) = 0 THEN [err |-> "", panic |-> FALSE, clauses |-> done]
    ELSE IF convertQueryInput(Head(clauses)).panic
         THEN [err |-> "", panic |-> TRUE, clauses |-> <<>>]
    ELSE IF convertQueryInput(Head(clauses)).err # ""
         THEN [err |-> "failed to convert query", panic |-> FALSE, clauses |-> <<>>]
         ELSE convertClauses(Tail(clauses), Append(done, convertQueryInput(Head(clauses))))

convertQueryInput(in) ==
    IF in.bool.present /\ convertClauses(in.bool.clauses, <<>>).panic
    THEN ConvertPanic
    ELSE IF in.bool.present /\ convertClauses(in.bool.clauses, <<>>).err # ""
    THEN ConvertError(convertClauses(in.bool.clauses, <<>>).err)
    \* a nil Nested.Query converts to (nil, nil), and *nestedQuery is read
    ELSE IF in.nested.present /\ Len(in.nested.query) = 0
    THEN ConvertPanic
    ELSE IF in.nested.present /\ convertQueryInput(in.nested.query[1]).panic
    THEN ConvertPanic
    ELSE IF in.nested.present /\ convertQueryInput(in.nested.query[1]).err # ""
    THEN ConvertError("failed to convert nested query")
    ELSE IF fieldsSet(in) = 0 THEN ConvertError("no query type specified")
    ELSE IF fieldsSet(in) > 1
    THEN ConvertError("multiple query types specified, only one allowed")
    ELSE [err |-> "", panic |-> FALSE,
          kinds |-> in.leaf \cup (IF in.bool.present THEN {"bool"} ELSE {})
                            \cup (IF in.nested.present THEN {"nested"} ELSE {}),
          clauses |-> IF in.bool.present
                      THEN convertClauses(in.bool.clauses, <<>>).clauses ELSE <<>>,
          query |-> IF in.nested.present
                    THEN << convertQueryInput(in.nested.query[1]) >> ELSE <<>>]

ConvertQuery ==
    /\ input.op = "convertQueryInput"
    /\ output = NoOutput
    /\ output' = [op |-> "convertQueryInput", result |-> convertQueryInput(input.arg)]
    /\ UNCHANGED <<config, sg, pc, pending, queryFields, schema, sdl, resolved, service, input>>

(* An ESAggInput is [Name, kinds, filter, Aggs]: kinds the set of its      *)
(* non-nil kinds other than Filter, filter its Filter member (query holds  *)
(* its Query, <<>> for nil) and Aggs its sub-aggregation inputs.           *)

FilterAggInput(q) == [present |-> TRUE, clauses |-> <<>>, query |-> q]
AggInput(name, kinds, filter, aggs) ==
    [Name |-> name, kinds |-> kinds, filter |-> filter, Aggs |-> aggs]

FilterQueries ==
    { QueryInput({"term"}, Absent, Absent), QueryInput({"term", "exists"}, Absent, Absent),
      QueryInput({}, BoolInput(<< QueryInput({"term", "exists"}, Absent, Absent) >>), Absent) }

AggInputs0 ==
    { AggInput(<<"a">>, k, f, <<>>) :
        k \in { {}, {"terms"}, {"avg"}, {"terms", "avg"} },
        f \in {Absent, FilterAggInput(<<>>)} \cup { FilterAggInput(<<q>>) : q \in FilterQueries } }

AggInputs1 ==
    { AggInput(<<"a">>, k, Absent, <<a>>) : k \in { {"terms"}, {} }, a \in AggInputs0 }

AggInputs2 ==
    { AggInput(n, {"terms"}, Absent, <<a>>) : n \in { <<"a">>, <<>> }, a \in AggInputs1 }

AggInputNodes == AggInputs0 \cup AggInputs1 \cup AggInputs2

\* the lists of aggregation inputs: none, one, or two of which the second
\* is named a or b
AggInputLists ==
    { <<>> } \cup { <<a>> : a \in AggInputNodes }
    \cup { <<a, [b EXCEPT !.Name = n]>> :
             a \in AggInputs0 \cup AggInputs1, b \in AggInputs0, n \in { <<"a">>, <<"b">> } }

\* the number of kinds convertAggsInput counts in fieldsSet
aggFieldsSet(in) == Cardinality(in.kinds) + (IF in.filter.present THEN 1 ELSE 0)

AggsError(message) == [err |-> message, aggs |-> EmptyMap]

RECURSIVE convertAggsInput(_)
RECURSIVE convertAggsLoop(_, _)

\* the converted types.Aggregations of one input whose checks passed
convertedAgg(in) ==
    [kinds |-> in.kinds \cup (IF in.filter.present /\ Len(in.filter.query) > 0
                              THEN {"filter"} ELSE {}),
     filter |-> IF in.filter.present /\ Len(in.filter.query) > 0
                THEN << convertQueryInput(in.filter.query[1]) >> ELSE <<>>,
     Aggregations |-> IF Len(in.Aggs) > 0 THEN convertAggsInput(in.Aggs).aggs ELSE EmptyMap]

\* the body of the loop of convertAggsInput over the remaining inputs
convertAggsLoop(inputs, aggs) ==
    IF Len(inputs) = 0 THEN [err |-> "", aggs |-> aggs]
    ELSE IF Head(inputs).Name = <<>> THEN AggsError("aggregation name is required")
    ELSE IF /\ Head(inputs).filter.present
            /\ Len(Head(inputs).filter.query) > 0
            /\ convertQueryInput(Head(inputs).filter.query[1]).err # ""
    THEN AggsError("failed to convert filter query")
    ELSE IF aggFieldsSet(Head(inputs)) = 0 THEN AggsError("no aggregation type specified")
    ELSE IF aggFieldsSet(Head(inputs)) > 1
    THEN AggsError("multiple aggregation types specified, only one allowed")
    ELSE IF Len(Head(inputs).Aggs) > 0 /\ convertAggsInput(Head(inputs).Aggs).err # ""
    THEN AggsError("failed to convert sub-aggregations")
    ELSE convertAggsLoop(Tail(inputs), MapPut(aggs, Head(inputs).Name, convertedAgg(Head(inputs))))

convertAggsInput(inputs) == convertAggsLoop(inputs, EmptyMap)

ConvertAggs ==
    /\ input.op = "convertAggsInput"
    /\ output = NoOutput
    /\ output' = [op |-> "convertAggsInput", result |-> convertAggsInput(input.arg)]
    /\ UNCHANGED <<config, sg, pc, pending, queryFields, schema, sdl, resolved, service, input>>

InitConvert ==
    /\ AtRest
    /\ \/ \E q \in QueryInputs : input = [op |-> "convertQueryInput", arg |-> q]
       \/ \E a \in AggInputLists : input = [op |-> "convertAggsInput", arg |-> a]
    /\ output = NoOutput

NextConvert ==
    \/ ConvertQuery
    \/ ConvertAggs

SpecConvert == InitConvert /\ [][NextConvert]_vars

\* some node of a query input sets more than one kind
RECURSIVE QueryInputMultiKind(_)
QueryInputMultiKind(in) ==
    \/ Cardinality(in.leaf) + (IF in.bool.present THEN 1 ELSE 0)
                            + (IF in.nested.present THEN 1 ELSE 0) > 1
    \/ \E i \in 1..Len(in.bool.clauses) : QueryInputMultiKind(in.bool.clauses[i])
    \/ \E i \in 1..Len(in.nested.query) : QueryInputMultiKind(in.nested.query[i])

\* some node of a list of aggregation inputs sets more than one kind
RECURSIVE AggInputsMultiKind(_)
AggInputsMultiKind(inputs) ==
    \E i \in 1..Len(inputs) :
        \/ Cardinality(inputs[i].kinds) + (IF inputs[i].filter.present THEN 1 ELSE 0) > 1
        \/ \E j \in 1..Len(inputs[i].filter.query) :
               QueryInputMultiKind(inputs[i].filter.query[j])
        \/ AggInputsMultiKind(inputs[i].Aggs)

\* every node of a converted query has at most one kind
RECURSIVE QueryOneKind(_)
QueryOneKind(q) ==
    /\ Cardinality(q.kinds) <= 1
    /\ \A i \in 1..Len(q.clauses) : QueryOneKind(q.clauses[i])
    /\ \A i \in 1..Len(q.query) : QueryOneKind(q.query[i])

\* every node of a converted aggregations map has at most one kind
RECURSIVE AggsOneKind(_)
AggsOneKind(aggs) ==
    \A n \in DOMAIN aggs :
        /\ Cardinality(aggs[n].kinds) <= 1
        /\ \A i \in 1..Len(aggs[n].filter) : QueryOneKind(aggs[n].filter[i])
        /\ AggsOneKind(aggs[n].Aggregations)

\* C15: a query or aggregation input with a node, at any depth, that sets
\* more than one kind is not converted but fails with an error, and every
\* node of a converted tree has at most one kind.
C15_OneKindPerNode ==
    /\ output.op = "convertQueryInput"
       => /\ QueryInputMultiKind(input.arg) => output.result.err # ""
          /\ output.result.err = "" => QueryOneKind(output.result)
    /\ output.op = "convertAggsInput"
       => /\ AggInputsMultiKind(input.arg) => output.result.err # ""
          /\ output.result.err = "" => AggsOneKind(output.result.aggs)

\* a query input whose only multi-kind node is two levels down was refused
C15_Witness ==
    /\ output.op = "convertQueryInput"
    /\ output.result.err # ""
    /\ input.arg.leaf = {}
    /\ input.arg.bool.present
    /\ ~input.arg.nested.present
    /\ Len(input.arg.bool.clauses) = 1
    /\ input.arg.bool.clauses[1].leaf = {}
    /\ ~input.arg.bool.clauses[1].bool.present
    /\ input.arg.bool.clauses[1].nested.present
    /\ input.arg.bool.clauses[1].nested.query[1].leaf = {"term", "exists"}
    /\ ~input.arg.bool.clauses[1].nested.query[1].bool.present

-----------------------------------------------------------------------------
(* The searches the resolvers execute.  A query configuration is reduced   *)
(* to what decides the search: EnableElasticQuerying, whether RootQuery is *)
(* set, and what RootQueryBuilder and RequestInterceptor do ("none": nil,  *)
(* "ok", "error").  A search is [flow, must, intercepted]: must lists the  *)
(* queries merged into it ("root": RootQuery, "dynamic": the query of      *)
(* RootQueryBuilder, "user": the query argument, "entity": the key-field   *)
(* query) and intercepted tells whether the request that is executed went  *)
(* through RequestInterceptor.                                             *)

ResolverQueryConfigs ==
    [EnableElasticQuerying : BOOLEAN, RootQuery : BOOLEAN,
     RootQueryBuilder : {"none", "ok", "error"},
     RequestInterceptor : {"none", "ok", "error"}]

\* the query argument of a call: not given, null, an input that converts,
\* or one that does not
QueryArgs == {"absent", "null", "valid", "invalid"}

ResolveError(message) ==
    [err |-> message, executed |-> FALSE, flow |-> "none", must |-> <<>>,
     intercepted |-> FALSE]
Search(flow, must, intercepted) ==
    [err |-> "", executed |-> TRUE, flow |-> flow, must |-> must,
     intercepted |-> intercepted]

\* mergeQueries: the non-nil queries among its arguments become the must
\* clauses of one bool query (a single one is returned as it is)
mergeQueries(queries) == SelectSeq(queries, LAMBDA q : q # "nil")

\* executeTypedESQuery
executeTypedESQuery(qc, query, httpReq) ==
    IF query = "invalid" THEN ResolveError("failed to convert query")
    ELSE IF qc.RootQueryBuilder # "none" /\ ~httpReq
    THEN ResolveError("HTTP request not available in context")
    ELSE IF qc.RootQueryBuilder = "error" THEN ResolveError("failed to build root query")
    ELSE Search("typed",
                mergeQueries(<< IF qc.RootQuery THEN "root" ELSE "nil",
                                IF qc.RootQueryBuilder = "ok" THEN "dynamic" ELSE "nil",
                                "user" >>),
                FALSE)

\* the resolver function BuildResolver returns, called with a query argument
BuildResolver(qc, esClient, query, httpReq) ==
    IF qc.EnableElasticQuerying /\ esClient /\ query \in {"valid", "invalid"}
    THEN executeTypedESQuery(qc, query, httpReq)
    ELSE IF qc.RequestInterceptor # "none" /\ ~httpReq
    THEN ResolveError("HTTP request not available in context")
    ELSE IF qc.RequestInterceptor = "error" THEN ResolveError("request interceptor failed")
    ELSE Search("features", <<>>, qc.RequestInterceptor = "ok")

ResolveQuery ==
    /\ input.op = "BuildResolver"
    /\ output = NoOutput
    /\ output' = [op |-> "BuildResolver",
                  result |-> BuildResolver(input.qc, input.esClient, input.query,
                                           input.httpReq)]
    /\ UNCHANGED <<config, sg, pc, pending, queryFields, schema, sdl, resolved, service, input>>

\* resolveWithTypedQuery up to the search it issues, for an owner that is a
\* feature query (useFeatureFlow) or a precompiled query
entitySearch(qc, useFeatureFlow, esClient, httpReq) ==
    IF ~esClient THEN ResolveError("ES client not configured")
    ELSE IF qc.RootQueryBuilder = "error" /\ httpReq
    THEN ResolveError("failed to build root query")
    ELSE Search("typed",
                mergeQueries(<< IF useFeatureFlow /\ qc.RootQuery THEN "root" ELSE "nil",
                                IF qc.RootQueryBuilder = "ok" /\ httpReq
                                THEN "dynamic" ELSE "nil",
                                "entity" >>),
                FALSE)

\* resolveWithFeatures and resolveWithPrecompiled: the interceptor works on
\* a fresh reveald request that the typed search does not read
resolveEntitySearch(qc, useFeatureFlow, esClient, httpReq) ==
    IF useFeatureFlow /\ qc.RequestInterceptor = "error" /\ httpReq
    THEN ResolveError("request interceptor failed")
    ELSE entitySearch(qc, useFeatureFlow, esClient, httpReq)

ResolveEntitySearch ==
    /\ input.op = "resolveEntity"
    /\ output = NoOutput
    /\ output' = [op |-> "resolveEntity",
                  result |-> resolveEntitySearch(input.qc, input.useFeatureFlow,
                                                 input.esClient, input.httpReq)]
    /\ UNCHANGED <<config, sg, pc, pending, queryFields, schema, sdl, resolved, service, input>>

InitResolve ==
    /\ AtRest
    /\ \/ \E qc \in ResolverQueryConfigs, c \in BOOLEAN, q \in QueryArgs, h \in BOOLEAN :
             input = [op |-> "BuildResolver", qc |-> qc, esClient |-> c, query |-> q,
                      httpReq |-> h]
       \/ \E qc \in ResolverQueryConfigs, f \in BOOLEAN, c \in BOOLEAN, h \in BOOLEAN :
             input = [op |-> "resolveEntity", qc |-> qc, useFeatureFlow |-> f,
                      esClient |-> c, httpReq |-> h]
    /\ output = NoOutput

NextResolve ==
    \/ ResolveQuery
    \/ ResolveEntitySearch

SpecResolve == InitResolve /\ [][NextResolve]_vars

\* C16: every search executed by the resolver of a query configured with a
\* RootQuery has RootQuery among its must clauses.
C16_RootQueryAlwaysApplied ==
    (output.op = "BuildResolver" /\ output.result.executed /\ input.qc.RootQuery)
    => \E i \in 1..Len(output.result.must) : output.result.must[i] = "root"

\* C17: every search executed to resolve an entity has the query of the
\* owner's RootQueryBuilder among its must clauses and runs a request that
\* went through the owner's RequestInterceptor.
C17_EntitySearchSecured ==
    (output.op = "resolveEntity" /\ output.result.executed)
    => /\ input.qc.RootQueryBuilder # "none"
          => \E i \in 1..Len(output.result.must) : output.result.must[i] = "dynamic"
       /\ input.qc.RequestInterceptor # "none" => output.result.intercepted

-----------------------------------------------------------------------------
(* convertBucketsWithPath.  A bucket is [Value, SubResultBuckets]; a value *)
(* is a string or an integer, and the sub-buckets of a bucket are one list *)
(* (the lists of its sub-aggregations, which the code flattens).           *)

MaxBucketDepth == 2
MaxBuckets == 2

StringValue(s) == [kind |-> "string", s |-> s, n |-> 0]
IntValue(n) == [kind |-> "int", s |-> <<>>, n |-> n]
BucketValues == {StringValue(<<>>), StringValue(<<"A">>), IntValue(12)}

RECURSIVE BucketsOfDepth(_)
BucketsOfDepth(d) ==
    IF d = 0 THEN [Value : BucketValues, SubResultBuckets : {<<>>}]
    ELSE [Value : BucketValues,
          SubResultBuckets : {<<>>} \cup {<<b>> : b \in BucketsOfDepth(d - 1)}]

BucketLists ==
    UNION {[1..n -> BucketsOfDepth(MaxBucketDepth)] : n \in 1..MaxBuckets}

DigitChars == <<"0", "1", "2", "3", "4", "5", "6", "7", "8", "9">>

RECURSIVE Digits(_)
Digits(n) ==
    IF n < 10 THEN <<DigitChars[n + 1]>>
    ELSE Digits(n \div 10) \o <<DigitChars[(n % 10) + 1]>>

\* fmt.Sprintf("%v", bucket.Value)
Sprintf(v) == IF v.kind = "int" THEN Digits(v.n) ELSE v.s

\* the parent path the sub-buckets of a bucket are converted with
subBucketPath(parentPath, filterValue) == filterValue

RECURSIVE convertBucketsWithPath(_, _)
convertBucket(bucket, parentPath, valueStr, filterValue) ==
    [value |-> valueStr,
     filterValue |-> filterValue,
     buckets |-> convertBucketsWithPath(bucket.SubResultBuckets,
                                        subBucketPath(parentPath, filterValue))]
convertBucketsWithPath(buckets, parentPath) ==
    [i \in 1..Len(buckets) |->
        convertBucket(buckets[i], parentPath, Sprintf(buckets[i].Value),
                      IF parentPath # <<>>
                      THEN parentPath \o <<">">> \o Sprintf(buckets[i].Value)
                      ELSE Sprintf(buckets[i].Value))]

ConvertBuckets ==
    /\ input.op = "convertBucketsWithPath"
    /\ output = NoOutput
    /\ output' = [op |-> "convertBucketsWithPath",
                  result |-> convertBucketsWithPath(input.buckets, <<>>)]
    /\ UNCHANGED <<config, sg, pc, pending, queryFields, schema, sdl, resolved, service, input>>

InitBuckets ==
    /\ AtRest
    /\ \E buckets \in BucketLists :
          input = [op |-> "convertBucketsWithPath", buckets |-> buckets]
    /\ output = NoOutput

NextBuckets == ConvertBuckets

SpecBuckets == InitBuckets /\ [][NextBuckets]_vars

\* the values of a chain of buckets joined by '>'
RECURSIVE JoinChain(_)
JoinChain(chain) ==
    IF Len(chain) = 1 THEN chain[1]
    ELSE JoinChain(SubSeq(chain, 1, Len(chain) - 1)) \o <<">">> \o chain[Len(chain)]

RECURSIVE ChainsJoined(_, _)
ChainsJoined(converted, ancestors) ==
    \A i \in 1..Len(converted) :
        /\ converted[i].filterValue = JoinChain(Append(ancestors, converted[i].value))
        /\ ChainsJoined(converted[i].buckets, Append(ancestors, converted[i].value))

\* C18: every converted bucket's filterValue is the '>'-joined chain of the
\* values of all its ancestors followed by its own value.
C18_FilterValueIsJoinedChain ==
    output.op = "convertBucketsWithPath" => ChainsJoined(output.result, <<>>)

-----------------------------------------------------------------------------
(* esTypeToGraphQLType on one field of a mapping *)

\* the tags of mapping.go, tags it does not define, and "" for a mapping
\* without a type
FieldTypeTags ==
    {"text", "keyword", "long", "integer", "short", "byte", "double", "float",
     "boolean", "date", "object", "nested", "geo_point", "ip", "Keyword", ""}

TypedFields ==
    {Leaf(n, t) : n \in {<<"k">>, <<"a", ".", "b">>}, t \in FieldTypeTags}
    \cup {Obj(<<"x">>, t, << Leaf(<<"k">>, "short") >>) : t \in {"object", "nested"}}

ParentPaths == {<<>>, <<"a">>}

\* r is the [st, type] esTypeToGraphQLType returned
FieldConverted(r) ==
    /\ sg' = r.st
    /\ output' = [op |-> "esTypeToGraphQLType", result |-> r.type]

ConvertField ==
    /\ input.op = "esTypeToGraphQLType"
    /\ output = NoOutput
    /\ FieldConverted(esTypeToGraphQLType(sg, input.field, input.parentPath))
    /\ UNCHANGED <<config, pc, pending, queryFields, schema, sdl, resolved, service, input>>

InitTypes ==
    /\ AtRest
    /\ \E f \in TypedFields, p \in ParentPaths :
          input = [op |-> "esTypeToGraphQLType", field |-> f, parentPath |-> p]
    /\ output = NoOutput

NextTypes == ConvertField

SpecTypes == InitTypes /\ [][NextTypes]_vars

\* the table of the type mappings
ScalarTable ==
    [t \in {"text", "keyword", "long", "integer", "short", "byte", "double", "float",
            "boolean", "date"} |->
        CASE t \in {"text", "keyword", "date"} -> "String"
          [] t \in {"long", "integer", "short", "byte"} -> "Int"
          [] t \in {"double", "float"} -> "Float"
          [] t = "boolean" -> "Boolean"]

\* C19: a field whose tag is in the table converts to the table's scalar,
\* and a field whose tag is unrecognized or absent converts to String.
C19_ScalarTable ==
    (output.op = "esTypeToGraphQLType" /\ input.field.Type \notin {"object", "nested"})
    => output.result = Scalar(IF input.field.Type \in DOMAIN ScalarTable
                              THEN ScalarTable[input.field.Type] ELSE "String")

C19_Witness ==
    /\ output.op = "esTypeToGraphQLType"
    /\ input.field.Type = "short"
    /\ output.result = Scalar("Int")

-----------------------------------------------------------------------------
(* generateQueryArguments.  A mapping field carries the names of its       *)
(* multi-fields (Fields); a feature is reduced to the property name        *)
(* extractAggregationFields reads from it (<<>>: none) and to whether it   *)
(* is a SortingFeature with options.                                       *)

MaxFields == 2

ArgField(name, type, fields) ==
    [Name |-> name, Type |-> type, Properties |-> <<>>, Fields |-> fields]

ArgFieldNames == {<<"b">>, <<"d", ".", "e">>, <<"d", "_", "e">>}

ArgFields ==
    {ArgField(n, t, {}) : n \in ArgFieldNames,
                          t \in {"keyword", "boolean", "long", "integer", "text",
                                 "double", "date"}}
    \cup {ArgField(n, "text", {"keyword"}) : n \in ArgFieldNames}

\* mapping.Properties in the order the loop visits them
ArgMappings ==
    {m \in UNION {[1..n -> ArgFields] : n \in 1..MaxFields} :
        \A i, j \in 1..Len(m) : i # j => m[i].Name # m[j].Name}

\* a feature with a property (or field, or name) struct field; <<>>: none
Feature(property, sorting) ==
    [kind |-> "simple", property |-> property, sorting |-> sorting,
     Prefix |-> <<>>, subaggs |-> <<>>, features |-> <<>>]

\* a feature with Prefix and Property struct fields and sub-aggregations
\* (their AggField names)
PrefixedFeature(prefix, property, subaggs) ==
    [kind |-> "prefixed", property |-> property, sorting |-> FALSE,
     Prefix |-> prefix, subaggs |-> subaggs, features |-> <<>>]

\* a wrapper feature: it has a features list and none of the other fields
WrapperFeature(features) ==
    [kind |-> "wrapper", property |-> <<>>, sorting |-> FALSE,
     Prefix |-> <<>>, subaggs |-> <<>>, features |-> features]

ArgQueryConfigs ==
    [EnableElasticQuerying : BOOLEAN,
     FieldFilter : {NoFilter, [present |-> TRUE, Include |-> {}, Exclude |-> {<<"b">>}]},
     Features : {<<>>, <<Feature(<<"b">>, FALSE)>>, <<Feature(<<>>, TRUE)>>},
     EnablePagination : BOOLEAN,
     EnableSorting : BOOLEAN]

InputType(n) == [base |-> n, id |-> 0, wrap |-> <<>>]

\* the mutant takes every field for filterable
isFilterableFieldAlways(field) == TRUE

isFilterableField(field) ==
    CASE field.Type \in {"keyword", "boolean", "long", "integer"} -> TRUE
      [] field.Type = "text" -> "keyword" \in field.Fields
      [] OTHER -> FALSE

getFilterArgumentType(field) ==
    CASE field.Type \in {"text", "keyword"} -> NewList(Scalar("String"))
      [] field.Type = "boolean" -> Scalar("Boolean")
      [] field.Type \in {"long", "integer", "short", "byte"} -> Scalar("Int")
      [] field.Type \in {"double", "float"} -> Scalar("Float")
      [] OTHER -> Scalar("String")

\* if !seenFields[name] { aggFields = append(aggFields, name) }
appendUnseen(aggFields, name) ==
    IF \E i \in 1..Len(aggFields) : aggFields[i] = name THEN aggFields
    ELSE Append(aggFields, name)

RECURSIVE appendAllUnseen(_, _)
appendAllUnseen(aggFields, names) ==
    IF Len(names) = 0 THEN aggFields
    ELSE appendAllUnseen(appendUnseen(aggFields, Head(names)), Tail(names))

\* the names one feature of the list contributes: Prefix + Property and
\* the sub-aggregation names when it has both fields, else its property
\* name when that is not empty; a features list is not read
featureFields(feature) ==
    IF feature.kind = "prefixed"
    THEN <<feature.Prefix \o feature.property>> \o feature.subaggs
    ELSE IF feature.property # <<>> THEN <<feature.property>> ELSE <<>>

\* the loop over the features
RECURSIVE extractAggregationFieldsFrom(_, _)
extractAggregationFieldsFrom(aggFields, features) ==
    IF Len(features) = 0 THEN aggFields
    ELSE extractAggregationFieldsFrom(
             appendAllUnseen(aggFields, featureFields(Head(features))), Tail(features))

extractAggregationFields(features) == extractAggregationFieldsFrom(<<>>, features)

extractSortOptions(features) == \E i \in 1..Len(features) : features[i].sorting

\* the loop over mapping.Properties
RECURSIVE mappingArguments(_, _, _)
mappingArguments(args, props, filter) ==
    IF Len(props) = 0 THEN args
    ELSE mappingArguments(
             IF shouldIncludeField(Head(props).Name, filter) /\ isFilterableField(Head(props))
             THEN MapPut(args, ReplaceAll(Head(props).Name, ".", "_"),
                         getFilterArgumentType(Head(props)))
             ELSE args,
             Tail(props), filter)

\* the loop over the auto-detected aggregation fields
RECURSIVE autoDetectedArguments(_, _)
autoDetectedArguments(args, fieldNames) ==
    IF Len(fieldNames) = 0 THEN args
    ELSE autoDetectedArguments(
             IF ReplaceAll(Head(fieldNames), ".", "_") \in DOMAIN args THEN args
             ELSE MapPut(args, ReplaceAll(Head(fieldNames), ".", "_"),
                         NewList(Scalar("String"))),
             Tail(fieldNames))

elasticArguments(queryConfig) ==
    IF queryConfig.EnableElasticQuerying
    THEN MapPut(MapPut(EmptyMap, <<"q","u","e","r","y">>, InputType("ESQueryInput")),
                <<"a","g","g","s">>, NewList(InputType("ESAggInput")))
    ELSE EmptyMap

paginationArguments(args, queryConfig) ==
    IF queryConfig.EnablePagination
    THEN MapPut(MapPut(args, <<"l","i","m","i","t">>, Scalar("Int")),
                <<"o","f","f","s","e","t">>, Scalar("Int"))
    ELSE args

sortArguments(args, queryConfig) ==
    IF queryConfig.EnableSorting
    THEN MapPut(args, <<"s","o","r","t">>,
                IF extractSortOptions(queryConfig.Features)
                THEN InputType("SortEnum") ELSE Scalar("String"))
    ELSE args

generateQueryArguments(queryConfig, mapping) ==
    sortArguments(
        paginationArguments(
            autoDetectedArguments(
                mappingArguments(elasticArguments(queryConfig), mapping,
                                 queryConfig.FieldFilter),
                extractAggregationFields(queryConfig.Features)),
            queryConfig),
        queryConfig)

GenerateArguments ==
    /\ input.op = "generateQueryArguments"
    /\ output = NoOutput
    /\ output' = [op |-> "generateQueryArguments",
                  result |-> generateQueryArguments(input.queryConfig, input.mapping)]
    /\ UNCHANGED <<config, sg, pc, pending, queryFields, schema, sdl, resolved, service, input>>

InitArguments ==
    /\ AtRest
    /\ \E qc \in ArgQueryConfigs, m \in ArgMappings :
          input = [op |-> "generateQueryArguments", queryConfig |-> qc, mapping |-> m]
    /\ output = NoOutput

NextArguments == GenerateArguments

SpecArguments == InitArguments /\ [][NextArguments]_vars

\* the filterability table
Filterable(field) ==
    \/ field.Type \in {"keyword", "boolean", "long", "integer"}
    \/ field.Type = "text" /\ "keyword" \in field.Fields

ArgumentName(field) == ReplaceAll(field.Name, ".", "_")

HasArgument(field) == ArgumentName(field) \in DOMAIN output.result

\* the field passes the query's FieldFilter, no feature names it and no
\* other field of the mapping has its argument name
PlainField(i) ==
    /\ shouldIncludeField(input.mapping[i].Name, input.queryConfig.FieldFilter)
    /\ \A k \in 1..Len(input.queryConfig.Features) :
          ReplaceAll(input.queryConfig.Features[k].property, ".", "_")
              # ArgumentName(input.mapping[i])
    /\ \A j \in 1..Len(input.mapping) :
          j # i => ArgumentName(input.mapping[j]) # ArgumentName(input.mapping[i])

-----------------------------------------------------------------------------
(* Field filters of feature queries *)

FieldFilterOf(include, exclude) == [present |-> TRUE, Include |-> include, Exclude |-> exclude]

FieldFilters ==
    { NoFilter,
      FieldFilterOf({SId}, {}),
      FieldFilterOf({}, {SId}),
      FieldFilterOf({SId, <<"x">>}, {<<"x">>}),
      FieldFilterOf({}, {<<"n">>, <<"a">>}) }

FilteredQuery(m, filter) == [FeatureQuery(m, <<>>, <<>>) EXCEPT !.FieldFilter = filter]

FilterConfigs ==
    UNION { [EnableFederation : {FALSE}, QueryNamespace : { <<>> }, esClient : {FALSE},
             CustomTypes : { <<>> }, CustomTypesWithKeys : { <<>> },
             Queries : [qs -> { FilteredQuery(m, f) : m \in {MapP, MapT}, f \in FieldFilters }],
             PrecompiledQueries : [{} -> {}]] :
            qs \in (SUBSET FeatureNames) \ {{}} }

InitFilter ==
    /\ config \in FilterConfigs
    /\ sg = EmptyGenerator
    /\ pc = "new"
    /\ pending = {}
    /\ queryFields = EmptyMap
    /\ schema = NoSchema
    /\ sdl = NoSDL
    /\ resolved = NoCall
    /\ service = NoService
    /\ input = NoInput
    /\ output = NoOutput

NextFilter ==
    \/ NewSchemaGenerator
    \/ \E q \in FeatureNames : GenerateQueryField(q)
    \/ FinishGenerate

SpecFilter == InitFilter /\ [][NextFilter]_vars

\* the fields of the document type of the hits of a generated feature query
HitsDocumentFields(q) ==
    DOMAIN sg.types[sg.types[queryFields[q].id].Fields[SHits].id].Fields

\* the mapping fields of query q that its field filter rejects
RejectedFields(q) ==
    { config.Queries[q].Mapping.Properties[i].Name :
        i \in { i \in 1..Len(config.Queries[q].Mapping.Properties) :
                  ~shouldIncludeField(config.Queries[q].Mapping.Properties[i].Name,
                                      config.Queries[q].FieldFilter) } }

\* C21: a mapping field rejected by a query's field filter is absent from
\* the document type of that query's hits, and generation does not fail.
C21_RejectedFieldsAbsent ==
    /\ schema.state # "error"
    /\ \A q \in DOMAIN queryFields \cap DOMAIN config.Queries :
          RejectedFields(q) \cap HitsDocumentFields(q) = {}

-----------------------------------------------------------------------------
(* extractAggregationFields on lists of features *)

MaxFeatures == 2

SimpleFeatures == { Feature(p, FALSE) : p \in { <<"c">>, <<"b">> } }

WrapperFeatures1 ==
    { WrapperFeature(fs) : fs \in UNION { [1..n -> SimpleFeatures] : n \in 1..2 } }

WrapperFeatures2 == { WrapperFeature(<<w>>) : w \in WrapperFeatures1 }

FeatureSamples ==
    SimpleFeatures \cup { Feature(<<>>, TRUE) }
    \cup { PrefixedFeature(<<"p">>, <<"c">>, subs) : subs \in { <<>>, <<<<"p", "b">>>> } }
    \cup WrapperFeatures1 \cup WrapperFeatures2

FeatureLists == UNION { [1..n -> FeatureSamples] : n \in 1..MaxFeatures }

ExtractFields ==
    /\ input.op = "extractAggregationFields"
    /\ output = NoOutput
    /\ output' = [op |-> "extractAggregationFields",
                  result |-> extractAggregationFields(input.features)]
    /\ UNCHANGED <<config, sg, pc, pending, queryFields, schema, sdl, resolved, service, input>>

InitFeatures ==
    /\ AtRest
    /\ \E fs \in FeatureLists : input = [op |-> "extractAggregationFields", features |-> fs]
    /\ output = NoOutput

NextFeatures == ExtractFields

SpecFeatures == InitFeatures /\ [][NextFeatures]_vars

\* the aggregation field names of a list of features, wrapped features in
\* the place of their wrapper, duplicates included
RECURSIVE AllFieldNames(_)
AllFieldNames(features) ==
    IF Len(features) = 0 THEN <<>>
    ELSE (IF Head(features).kind = "wrapper"
          THEN AllFieldNames(Head(features).features)
          ELSE featureFields(Head(features)))
         \o AllFieldNames(Tail(features))

\* s without the later occurrences of its elements
RECURSIVE FirstOccurrences(_)
FirstOccurrences(s) ==
    IF Len(s) = 0 THEN <<>>
    ELSE LET rest == FirstOccurrences(SubSeq(s, 1, Len(s) - 1))
         IN  IF \E i \in 1..Len(rest) : rest[i] = s[Len(s)] THEN rest
             ELSE Append(rest, s[Len(s)])

\* C22: extractAggregationFields returns the field names of the features,
\* those of wrapped features included at any depth, in first-occurrence
\* order and without duplicates.
C22_AllFieldsOnceInOrder ==
    output.op = "extractAggregationFields"
    => output.result = FirstOccurrences(AllFieldNames(input.features))

-----------------------------------------------------------------------------
(* generateAggregationType on one node of a sample aggregation tree, with  *)
(* up to MaxKinds members of types.Aggregations populated                  *)

MaxKinds == 2

AggregationKinds ==
    {"terms", "date_histogram", "histogram", "filters", "filter", "nested",
     "avg", "sum", "min", "max", "cardinality", "stats", "geo_bounds"}

KindSets == { ks \in SUBSET AggregationKinds : Cardinality(ks) <= MaxKinds }

AggNodes ==
    { [Name |-> <<"n">>, Kinds |-> ks, Filters |-> flt, Aggregations |-> subs] :
        ks \in KindSets,
        flt \in { [keyed |-> FALSE, names |-> <<>>], [keyed |-> TRUE, names |-> << <<"o">> >>] },
        subs \in { <<>>, << Terms(<<"m">>, <<>>) >> } }

\* r is the [st, type] generateAggregationType returned
AggregationGenerated(r) ==
    /\ sg' = r.st
    /\ output' = [op |-> "generateAggregationType", result |-> r.type]

GenerateAggregation ==
    /\ input.op = "generateAggregationType"
    /\ output = NoOutput
    /\ AggregationGenerated(generateAggregationType(sg, SampleQuery, input.aggDef, <<>>))
    /\ UNCHANGED <<config, pc, pending, queryFields, schema, sdl, resolved, service, input>>

InitKinds ==
    /\ AtRest
    /\ \E aggDef \in { n \in AggNodes : "filters" \notin n.Kinds => ~n.Filters.keyed } :
          input = [op |-> "generateAggregationType", aggDef |-> aggDef]
    /\ output = NoOutput

NextKinds == GenerateAggregation

SpecKinds == InitKinds /\ [][NextKinds]_vars

\* the fixed order of the kinds
KindOrder ==
    <<"terms", "date_histogram", "histogram", "filters", "filter", "nested",
      "avg", "sum", "min", "max", "cardinality", "stats">>

\* the first kind of the order that is populated, "" for none
FirstPopulated(ks) ==
    IF \E i \in 1..Len(KindOrder) : KindOrder[i] \in ks
    THEN KindOrder[CHOOSE i \in 1..Len(KindOrder) :
                       /\ KindOrder[i] \in ks
                       /\ \A j \in 1..(i - 1) : KindOrder[j] \notin ks]
    ELSE ""

\* what the type derived for one kind looks like: a scalar or shared type
\* by its name, an object by its fields
ShapeOfKind(kind, filters) ==
    CASE kind \in {"terms", "date_histogram", "histogram"} -> "buckets"
      [] kind = "filters" ->
            IF filters.keyed /\ Len(filters.names) > 0 THEN "keyed" ELSE "GenericAggregation"
      [] kind \in {"filter", "nested"} -> "single"
      [] kind \in {"avg", "sum", "min", "max"} -> "Float"
      [] kind = "cardinality" -> "Int"
      [] kind = "stats" -> "StatsValues"
      [] OTHER -> "GenericAggregation"

ShapeOfType(type) ==
    IF type.base # "Object" THEN type.base
    ELSE IF SBuckets \in DOMAIN sg.types[type.id].Fields THEN "buckets"
    ELSE IF SDocCount \in DOMAIN sg.types[type.id].Fields THEN "single"
    ELSE "keyed"

\* C23: the type derived for a node is that of the first populated kind in
\* the fixed order, and the generic aggregation type when no recognized
\* kind is populated.
C23_FirstPopulatedKindWins ==
    output.op = "generateAggregationType"
    => ShapeOfType(output.result)
         = ShapeOfKind(FirstPopulated(input.aggDef.Kinds), input.aggDef.Filters)

C23_Witness ==
    /\ output.op = "generateAggregationType"
    /\ input.aggDef.Kinds = {"filter", "avg"}
    /\ ShapeOfType(output.result) = "single"

-----------------------------------------------------------------------------
(* Concurrent resolver invocations on a generated schema.  input[g] is the *)
(* invocation goroutine g is in (op, its argument, the position of the     *)
(* loop of ResolveEntities and the results so far) and output[g] what its  *)
(* last invocation returned.  A resolver function takes the generator and  *)
(* returns [st, result]: st is the generator it leaves behind.             *)

Goroutines == {"g1", "g2"}

Idle == [op |-> "idle", arg |-> <<>>, pos |-> 0, acc |-> <<>>]
Invocation(op, arg) == [op |-> op, arg |-> arg, pos |-> 0, acc |-> <<>>]

EntityCalls ==
    { << Repr("map", SPDocument, {SId}, "found"), Repr("json", SPDocument, {SId}, "not_found") >>,
      << Repr("map", SNope, {SId}, "found") >> }

Invocations ==
    { Invocation("_entities", reps) : reps \in EntityCalls }
    \cup { Invocation("_service", <<>>) }
    \cup { Invocation("resolveType", t) : t \in {SPDocument, SNope} }
    \cup { Invocation("query", q) : q \in {"valid"} }

\* a goroutine enters a resolver of the generated schema
Invoke(g, call) ==
    /\ pc = "done"
    /\ input[g] = Idle
    /\ call.op = "_entities" => SEntities \in DOMAIN schema.rootFields
    /\ input' = [input EXCEPT ![g] = call]
    /\ UNCHANGED <<config, sg, pc, pending, queryFields, schema, sdl, resolved, service, output>>

\* one iteration of the loop of ResolveEntities
resolveEntityStep(st, esClient, repr) ==
    [st |-> st, result |-> resolveEntity(st.typeMappings, esClient, repr)]

EntityResolved(g, r) ==
    /\ sg' = r.st
    /\ input' = [input EXCEPT ![g].pos = @ + 1, ![g].acc = appendResult(@, r.result)]

EntitiesStep(g) ==
    /\ input[g].op = "_entities"
    /\ input[g].pos < Len(input[g].arg)
    /\ EntityResolved(g, resolveEntityStep(sg, config.esClient,
                                           input[g].arg[input[g].pos + 1]))
    /\ UNCHANGED <<config, pc, pending, queryFields, schema, sdl, resolved, service, output>>

EntitiesReturn(g) ==
    /\ input[g].op = "_entities"
    /\ input[g].pos = Len(input[g].arg)
    /\ output' = [output EXCEPT ![g] = [op |-> "_entities", result |-> input[g].acc]]
    /\ input' = [input EXCEPT ![g] = Idle]
    /\ UNCHANGED <<config, sg, pc, pending, queryFields, schema, sdl, resolved, service>>

\* r is the [st, result] of a resolver that returns in one step
Returned(g, r) ==
    /\ sg' = r.st
    /\ output' = [output EXCEPT ![g] = [op |-> input[g].op, result |-> r.result]]
    /\ input' = [input EXCEPT ![g] = Idle]

\* the closure of the _service field
serviceResolver(st, order) ==
    [st |-> st,
     result |-> IF schemaRefPopulated(st) THEN ExportFederationSDL(order) ELSE NoSDL]

ServiceStep(g) ==
    /\ input[g].op = "_service"
    /\ \E order \in Orders(DOMAIN sg.entityKeys) : Returned(g, serviceResolver(sg, order))
    /\ UNCHANGED <<config, pc, pending, queryFields, schema, sdl, resolved, service>>

\* a type resolution that remembers the names it did not find
resolveTypeRemembering(st, typename) ==
    IF CacheHas(st, typename) THEN [st |-> st, result |-> st.typeCache[typename]]
    ELSE [st |-> CachePut(st, typename, 0), result |-> 0]

\* ResolveType of the _Entity union: the object of the typename, 0 for nil
resolveType(st, typename) ==
    [st |-> st, result |-> IF CacheHas(st, typename) THEN st.typeCache[typename] ELSE 0]

ResolveTypeStep(g) ==
    /\ input[g].op = "resolveType"
    /\ Returned(g, resolveType(sg, input[g].arg))
    /\ UNCHANGED <<config, pc, pending, queryFields, schema, sdl, resolved, service>>

\* the resolver of a query field: it reads the resolver builder and the
\* query configuration only
queryResolver(st, esClient, query) ==
    [st |-> st,
     result |-> BuildResolver([EnableElasticQuerying |-> TRUE, RootQuery |-> FALSE,
                               RootQueryBuilder |-> "none", RequestInterceptor |-> "none"],
                              esClient, query, TRUE)]

QueryStep(g) ==
    /\ input[g].op = "query"
    /\ Returned(g, queryResolver(sg, config.esClient, input[g].arg))
    /\ UNCHANGED <<config, pc, pending, queryFields, schema, sdl, resolved, service>>

InitConcurrent ==
    /\ config \in { c \in EntityConfigs : c.esClient }
    /\ sg = EmptyGenerator
    /\ pc = "new"
    /\ pending = {}
    /\ queryFields = EmptyMap
    /\ schema = NoSchema
    /\ sdl = NoSDL
    /\ resolved = NoCall
    /\ service = NoService
    /\ input = [g \in Goroutines |-> Idle]
    /\ output = [g \in Goroutines |-> NoOutput]

NextConcurrent ==
    \/ NewSchemaGenerator
    \/ \E q \in FeatureNames : GenerateQueryField(q)
    \/ FinishGenerate
    \/ \E g \in Goroutines, call \in Invocations : Invoke(g, call)
    \/ \E g \in Goroutines : EntitiesStep(g)
    \/ \E g \in Goroutines : EntitiesReturn(g)
    \/ \E g \in Goroutines : ServiceStep(g)
    \/ \E g \in Goroutines : ResolveTypeStep(g)
    \/ \E g \in Goroutines : QueryStep(g)

SpecConcurrent == InitConcurrent /\ [][NextConcurrent]_vars

\* the type cache, the entity-key registries, the entity type mappings and
\* the schema reference cell
Registries ==
    <<sg.typeCache, sg.entityKeys, sg.sdlEntityKeys, sg.typeMappings, sg.schemaRef>>

\* C24: once Generate has returned, no step of any resolver invocation, in
\* any interleaving, changes the type cache, the entity-key registries, the
\* entity type mappings or the schema reference cell.
C24_ResolversOnlyRead == [][pc = "done" => Registries' = Registries]_vars

\* two invocations are in progress at once, one of them inside the loop of
\* ResolveEntities
C24_Witness ==
    /\ pc = "done"
    /\ input["g1"].op = "_entities" /\ input["g1"].pos = 1 /\ Len(input["g1"].arg) = 2
    /\ input["g2"].op = "resolveType" /\ input["g2"].arg = SNope
    /\ output["g2"].op = "_service"

-----------------------------------------------------------------------------
(* Two goroutines in Generate on one generator.  input[g] is goroutine g's *)
(* position in the loop over the feature queries: pos, the queries it has  *)
(* still to visit, the query it is at, the document type names it did not  *)
(* find in the cache and the cache writes it made.  The maps are not       *)
(* locked: the check and the write of generateDocumentType are two steps,  *)
(* and a write while the other goroutine is in Generate is a data race,    *)
(* which the runtime may stop with a fatal error.                          *)

Generating(pos, todo, query, missed, wrote) ==
    [pos |-> pos, todo |-> todo, query |-> query, missed |-> missed, wrote |-> wrote]

NotStarted == Generating("idle", {}, <<>>, {}, <<>>)

RaceConfigs ==
    UNION { [EnableFederation : BOOLEAN, QueryNamespace : { <<>> }, esClient : {FALSE},
             CustomTypes : { <<>> }, CustomTypesWithKeys : { <<>> },
             Queries : [qs -> { FeatureQuery(m, <<>>, k) :
                                  m \in {MapP, MapT}, k \in { <<>>, <<SId>> } }],
             PrecompiledQueries : [{} -> {}]] :
            qs \in (SUBSET FeatureNames) \ {{}} }

\* a goroutine calls Generate
BeginGenerate(g) ==
    /\ pc = "generate"
    /\ input[g].pos = "idle"
    /\ input' = [input EXCEPT ![g].pos = "loop", ![g].todo = DOMAIN config.Queries]
    /\ UNCHANGED <<config, sg, pc, pending, queryFields, schema, sdl, resolved, service, output>>

\* the next query of the loop over config.Queries
NextQuery(g, q) ==
    /\ input[g].pos = "loop"
    /\ q \in input[g].todo
    /\ input' = [input EXCEPT ![g].pos = "check", ![g].query = q, ![g].todo = @ \ {q}]
    /\ UNCHANGED <<config, sg, pc, pending, queryFields, schema, sdl, resolved, service, output>>

\* the cache check of generateDocumentType; on a hit the result type is
\* built over the cached document type
CheckDocumentCache(g) ==
    /\ input[g].pos = "check"
    /\ IF documentTypeCached(sg, documentTypeName(config.Queries[input[g].query]))
       THEN /\ sg' = newResultType(
                         input[g].query,
                         [st |-> sg,
                          id |-> sg.typeCache[documentTypeName(
                                                  config.Queries[input[g].query])]]).st
            /\ input' = [input EXCEPT ![g].pos = "loop"]
       ELSE /\ sg' = sg
            /\ input' = [input EXCEPT
                            ![g].pos = "miss",
                            ![g].missed =
                                @ \cup {documentTypeName(config.Queries[input[g].query])}]
    /\ UNCHANGED <<config, pc, pending, queryFields, schema, sdl, resolved, service, output>>

\* d is the [st, id] of the document type the goroutine built and cached
DocumentTypeWritten(g, d) ==
    /\ sg' = newResultType(input[g].query, d).st
    /\ input' = [input EXCEPT
                    ![g].pos = "loop",
                    ![g].wrote =
                        Append(@, [name |-> documentTypeName(config.Queries[input[g].query]),
                                   id |-> d.id])]

\* the rest of generateDocumentType after a miss, and the result type
WriteDocumentType(g) ==
    /\ input[g].pos = "miss"
    /\ DocumentTypeWritten(
           g, newDocumentType(input[g].query, config.Queries[input[g].query],
                              documentTypeName(config.Queries[input[g].query]),
                              documentFields(sg,
                                             config.Queries[input[g].query].Mapping.Properties,
                                             config.Queries[input[g].query].FieldFilter,
                                             EmptyMap)))
    /\ UNCHANGED <<config, pc, pending, queryFields, schema, sdl, resolved, service, output>>

\* the runtime detects the concurrent map write and ends the process
FatalConcurrentMapWrite(g) ==
    /\ input[g].pos = "miss"
    /\ \E h \in Goroutines \ {g} : input[h].pos \in {"loop", "check", "miss"}
    /\ input' = [h \in Goroutines |-> [input[h] EXCEPT !.pos = "crashed"]]
    /\ UNCHANGED <<config, sg, pc, pending, queryFields, schema, sdl, resolved, service, output>>

\* the loop is over: the goroutine stores its schema in the reference cell
EndGenerate(g) ==
    /\ input[g].pos = "loop"
    /\ input[g].todo = {}
    /\ sg' = [sg EXCEPT !.schemaRef = TRUE]
    /\ input' = [input EXCEPT ![g].pos = "returned"]
    /\ UNCHANGED <<config, pc, pending, queryFields, schema, sdl, resolved, service, output>>

InitRace ==
    /\ config \in RaceConfigs
    /\ sg = EmptyGenerator
    /\ pc = "new"
    /\ pending = {}
    /\ queryFields = EmptyMap
    /\ schema = NoSchema
    /\ sdl = NoSDL
    /\ resolved = NoCall
    /\ service = NoService
    /\ input = [g \in Goroutines |-> NotStarted]
    /\ output = [g \in Goroutines |-> NoOutput]

NextRace ==
    \/ NewSchemaGenerator
    \/ \E g \in Goroutines : BeginGenerate(g)
    \/ \E g \in Goroutines, q \in FeatureNames : NextQuery(g, q)
    \/ \E g \in Goroutines : CheckDocumentCache(g)
    \/ \E g \in Goroutines : WriteDocumentType(g)
    \/ \E g \in Goroutines : FatalConcurrentMapWrite(g)
    \/ \E g \in Goroutines : EndGenerate(g)

SpecRace == InitRace /\ [][NextRace]_vars

\* the number of entries of the sequence s that satisfy name = n
RECURSIVE WritesOf(_, _)
WritesOf(s, n) ==
    IF Len(s) = 0 THEN 0
    ELSE (IF Head(s).name = n THEN 1 ELSE 0) + WritesOf(Tail(s), n)

RaceTypeNames == { documentTypeName(config.Queries[q]) : q \in DOMAIN config.Queries }

\* C25: nothing serialises the goroutines: every goroutine that missed a
\* type name in the cache writes it, so the cache is written once per miss
\* and not once per type name.
C25_EveryMissWrites ==
    \A n \in RaceTypeNames :
        /\ WritesOf(sg.writes, n)
             = WritesOf(input["g1"].wrote, n) + WritesOf(input["g2"].wrote, n)
        /\ \A g \in Goroutines :
              (n \in input[g].missed /\ input[g].pos \in {"loop", "returned"}
                 /\ input[g].query # <<>>)
              => WritesOf(input[g].wrote, n) > 0

\* both goroutines missed the cache for one type name and both wrote it
C25_Witness ==
    \E n \in RaceTypeNames :
        /\ \A g \in Goroutines : n \in input[g].missed /\ WritesOf(input[g].wrote, n) = 1
        /\ WritesOf(sg.writes, n) = 2

-----------------------------------------------------------------------------
(* Two exports of the SDL of one configuration: GenerateSchemaSDL and the  *)
(* _service resolver                                                       *)

SDLConfigs ==
    { c \in Configs(FeatureNames, {}) : c.EnableFederation /\ c.CustomTypes = <<>> }

InitSDL ==
    /\ config \in SDLConfigs
    /\ sg = EmptyGenerator
    /\ pc = "new"
    /\ pending = {}
    /\ queryFields = EmptyMap
    /\ schema = NoSchema
    /\ sdl = NoSDL
    /\ resolved = NoCall
    /\ service = NoService
    /\ input = NoInput
    /\ output = NoOutput

NextSDL ==
    \/ NewSchemaGenerator
    \/ \E q \in FeatureNames : GenerateQueryField(q)
    \/ FinishGenerate
    \/ GenerateSchemaSDL
    \/ ServiceResolve

SpecSDL == InitSDL /\ [][NextSDL]_vars

\* C26: two exports of the SDL of one configuration give the same text.
C26_SameSDLTwice ==
    (sdl.exported /\ service.called /\ ~service.err) => service.sdl = sdl

-----------------------------------------------------------------------------
(* The argument reader: from the name of a GraphQL argument back to the    *)
(* Elasticsearch field name.  A mapping is the sequence of its top-level   *)
(* fields; the value of an argument is reduced to its Go type.             *)

\* strings.Index for a one-character pattern, 0 when it is absent
FirstIndex(s, c) ==
    IF \E i \in 1..Len(s) : s[i] = c
    THEN CHOOSE i \in 1..Len(s) : s[i] = c /\ \A j \in 1..(i - 1) : s[j] # c
    ELSE 0

\* parts[0] + "_" + strings.ReplaceAll(parts[1], "_", ".") for
\* parts := strings.SplitN(name, "_", 2) of a name that contains "_"
prefixedName(name) ==
    SubSeq(name, 1, FirstIndex(name, "_"))
        \o ReplaceAll(SubSeq(name, FirstIndex(name, "_") + 1, Len(name)), "_", ".")

RECURSIVE splitPath(_)
splitPath(path) ==
    IF Len(path) = 0 THEN <<>>
    ELSE IF FirstIndex(path, ".") = 0 THEN <<path>>
    ELSE IF FirstIndex(path, ".") = 1 THEN splitPath(Tail(path))
    ELSE <<SubSeq(path, 1, FirstIndex(path, ".") - 1)>>
             \o splitPath(SubSeq(path, FirstIndex(path, ".") + 1, Len(path)))

\* getFieldByPath on the parts of the path: TRUE when it finds a field
RECURSIVE fieldByParts(_, _)
fieldByParts(properties, parts) ==
    IF Len(parts) = 0 THEN FALSE
    ELSE \E i \in 1..Len(properties) :
            /\ properties[i].Name = parts[1]
            /\ \/ Len(parts) = 1
               \/ Len(parts) = 2 /\ parts[2] \in properties[i].Fields
               \/ fieldByParts(properties[i].Properties, Tail(parts))

\* mapping.GetField(path) != nil
GetField(mapping, path) == fieldByParts(mapping, splitPath(path))

SLimit == <<"l","i","m","i","t">>

\* the Elasticsearch field name convertArgument gives a field argument
fieldArgumentName(mapping, name) ==
    IF FirstIndex(name, "_") = 0 THEN name
    ELSE IF GetField(mapping, prefixedName(name)) THEN prefixedName(name)
    ELSE IF GetField(mapping, ReplaceAll(name, "_", ".")) THEN ReplaceAll(name, "_", ".")
    ELSE prefixedName(name)

\* the name of the reveald parameter convertArgument returns
convertArgument(mapping, name, valueType) ==
    CASE name = SLimit /\ valueType = "int" -> <<"s","i","z","e">>
      [] name = <<"o","f","f","s","e","t">> /\ valueType = "int" -> name
      [] name = <<"s","o","r","t">> /\ valueType = "string" -> name
      [] OTHER -> fieldArgumentName(mapping, name)

ReaderFieldNames ==
    { <<"b">>, <<"a","_","b">>, <<"a","_","b","_","c">>, <<"a",".","b">>, SLimit }

ReaderFields ==
    { ArgField(n, t, {}) : n \in ReaderFieldNames, t \in {"keyword", "long", "date"} }
    \cup { ArgField(n, "text", {"keyword"}) : n \in ReaderFieldNames }
    \cup { [ArgField(<<"a">>, "object", {}) EXCEPT
               !.Properties = << ArgField(<<"b">>, "keyword", {}) >>] }

ReaderMappings ==
    { m \in UNION { [1..n -> ReaderFields] : n \in 1..MaxFields } :
        \A i, j \in 1..Len(m) : i # j => m[i].Name # m[j].Name }

\* the argument of a field of the mapping comes back from a request; the
\* value has the Go type of the argument generateQueryArguments declared
ReadArgument ==
    /\ input.op = "convertArgument"
    /\ output = NoOutput
    /\ output' = [op |-> "convertArgument",
                  result |-> convertArgument(input.mapping, input.name, input.value)]
    /\ UNCHANGED <<config, sg, pc, pending, queryFields, schema, sdl, resolved, service, input>>

ArgumentValueType(type) ==
    CASE type = NewList(Scalar("String")) -> "list"
      [] type = Scalar("Int") -> "int"
      [] type = Scalar("Boolean") -> "bool"
      [] OTHER -> "string"

PlainQueryConfig ==
    [EnableElasticQuerying |-> FALSE, FieldFilter |-> NoFilter, Features |-> <<>>,
     EnablePagination |-> FALSE, EnableSorting |-> FALSE]

InitReader ==
    /\ AtRest
    /\ \E m \in ReaderMappings, i \in 1..MaxFields :
          /\ i <= Len(m)
          /\ isFilterableField(m[i])
          /\ input = [op |-> "convertArgument", mapping |-> m, field |-> m[i].Name,
                      name |-> ReplaceAll(m[i].Name, ".", "_"),
                      value |-> ArgumentValueType(
                                    generateQueryArguments(PlainQueryConfig, m)[
                                        ReplaceAll(m[i].Name, ".", "_")])]
    /\ output = NoOutput

NextReader == ReadArgument

SpecReader == InitReader /\ [][NextReader]_vars

\* C27: the argument name of a mapped field that became an argument is
\* turned back into the field's Elasticsearch name by the argument reader.
C27_FieldNameRoundTrip ==
    output.op = "convertArgument" => output.result = input.field

-----------------------------------------------------------------------------
(* sanitizeTypeName on index names.  Elasticsearch index names hold no     *)
(* whitespace, so the names are drawn from letters, digits, hyphens and    *)
(* underscores.                                                            *)

MaxNameLen == 4

NameChars == {"a", "L", "1", "-", "_"}

SCrossDomainSearchLeads ==
    <<"c","r","o","s","s","-","d","o","m","a","i","n","-",
      "s","e","a","r","c","h","-","l","e","a","d","s">>

STestLeads == <<"t","e","s","t","_","l","e","a","d","s">>

IndexNames ==
    UNION { [1..n -> NameChars] : n \in 1..MaxNameLen }
    \cup { SCrossDomainSearchLeads, STestLeads }

SanitizeIndexName ==
    /\ input.op = "sanitizeTypeName"
    /\ output = NoOutput
    /\ output' = [op |-> "sanitizeTypeName", result |-> sanitizeTypeName(input.indexName)]
    /\ UNCHANGED <<config, sg, pc, pending, queryFields, schema, sdl, resolved, service, input>>

InitNames ==
    /\ AtRest
    /\ \E n \in IndexNames : input = [op |-> "sanitizeTypeName", indexName |-> n]
    /\ output = NoOutput

NextNames == SanitizeIndexName

SpecNames == InitNames /\ [][NextNames]_vars

\* the name read character by character: hyphens and underscores are
\* dropped, and the first character of each part is capitalised
RECURSIVE PartsJoined(_, _)
PartsJoined(s, atStart) ==
    IF Len(s) = 0 THEN <<>>
    ELSE IF Head(s) \in {"-", "_"} THEN PartsJoined(Tail(s), TRUE)
    ELSE (IF atStart /\ \E i \in 1..Len(Lower) : Lower[i] = Head(s)
          THEN <<Upper[CHOOSE i \in 1..Len(Lower) : Lower[i] = Head(s)]>>
          ELSE <<Head(s)>>)
         \o PartsJoined(Tail(s), FALSE)

\* C28: sanitizeTypeName gives the parts of the index name between hyphens
\* and underscores, each with its first letter capitalised, joined with no
\* separator.
C28_PartsCapitalisedAndJoined ==
    output.op = "sanitizeTypeName" => output.result = PartsJoined(input.indexName, TRUE)

C28_Witness ==
    \/ /\ input.indexName = SCrossDomainSearchLeads
       /\ output.op = "sanitizeTypeName"
       /\ output.result = <<"C","r","o","s","s","D","o","m","a","i","n",
                            "S","e","a","r","c","h","L","e","a","d","s">>
    \/ /\ input.indexName = STestLeads
       /\ output.op = "sanitizeTypeName"
       /\ output.result = <<"T","e","s","t","L","e","a","d","s">>

-----------------------------------------------------------------------------
(* The query argument of a resolver: convertToESQueryInput reads the       *)
(* GraphQL argument value into an ESQueryInput, and convertQueryInput      *)
(* converts what it produced.  An argument value is [object, leaf, bool,   *)
(* nested]: object is FALSE for null and for any value that is not a map,  *)
(* leaf the leaf keys of the map, bool <<>> or the list under its bool     *)
(* key, nested <<>> or the value under the query key of its nested key     *)
(* (null when that key is missing).                                        *)

ArgNull == [object |-> FALSE, leaf |-> {}, bool |-> <<>>, nested |-> <<>>]
ArgObject(leaf, bool, nested) == [object |-> TRUE, leaf |-> leaf, bool |-> bool, nested |-> nested]

ArgValues0 ==
    {ArgNull} \cup { ArgObject(leaf, <<>>, <<>>) : leaf \in { {}, {"term"}, {"term", "exists"} } }

ArgValues1 ==
    { ArgObject(leaf, b, n) :
        leaf \in { {}, {"term"} },
        b \in { <<>> } \cup { <<c>> : c \in SeqsUpTo(ArgValues0, MaxClauses) },
        n \in { <<>> } \cup { <<q>> : q \in ArgValues0 } }

ArgValues2 ==
    { ArgObject({}, << <<q>> >>, <<>>) : q \in ArgValues1 }
    \cup { ArgObject({}, <<>>, <<q>>) : q \in ArgValues1 }

ArgValues == ArgValues0 \cup ArgValues1 \cup ArgValues2

ArgError(message) == [err |-> message, input |-> <<>>]

\* a reading that takes every argument value for a map
isObjectAlways(arg) == TRUE

\* arg.(map[string]any)
isObject(arg) == arg.object

RECURSIVE convertToESQueryInput(_)
RECURSIVE convertToESClauses(_, _)

\* the loops over must, should, filter and mustNot: the error of the first
\* entry that fails, or the inputs read
convertToESClauses(entries, done) ==
    IF Len(entries) = 0 THEN [err |-> "", clauses |-> done]
    ELSE IF convertToESQueryInput(Head(entries)).err # ""
         THEN [err |-> convertToESQueryInput(Head(entries)).err, clauses |-> <<>>]
         ELSE convertToESClauses(Tail(entries),
                                 Append(done, convertToESQueryInput(Head(entries)).input[1]))

convertToESQueryInput(arg) ==
    IF ~isObject(arg) THEN ArgError("query argument must be an object")
    ELSE IF Len(arg.bool) > 0 /\ convertToESClauses(arg.bool[1], <<>>).err # ""
    THEN ArgError(convertToESClauses(arg.bool[1], <<>>).err)
    ELSE IF Len(arg.nested) > 0 /\ convertToESQueryInput(arg.nested[1]).err # ""
    THEN ArgError(convertToESQueryInput(arg.nested[1]).err)
    ELSE [err |-> "",
          input |-> << QueryInput(
              arg.leaf,
              IF Len(arg.bool) > 0
              THEN BoolInput(convertToESClauses(arg.bool[1], <<>>).clauses) ELSE Absent,
              IF Len(arg.nested) > 0
              THEN [present |-> TRUE, clauses |-> <<>>,
                    query |-> convertToESQueryInput(arg.nested[1]).input]
              ELSE Absent) >>]

\* the first half of the query argument's conversion in executeTypedESQuery
ReadQueryArgument ==
    /\ input.op = "query"
    /\ output = NoOutput
    /\ output' = [op |-> "convertToESQueryInput", result |-> convertToESQueryInput(input.arg)]
    /\ UNCHANGED <<config, sg, pc, pending, queryFields, schema, sdl, resolved, service, input>>

\* the second half: what convertToESQueryInput produced is converted
ConvertQueryArgument ==
    /\ input.op = "query"
    /\ output.op = "convertToESQueryInput"
    /\ output.result.err = ""
    /\ output' = [op |-> "convertQueryInput",
                  result |-> convertQueryInput(output.result.input[1])]
    /\ UNCHANGED <<config, sg, pc, pending, queryFields, schema, sdl, resolved, service, input>>

InitArgument ==
    /\ AtRest
    /\ \E a \in ArgValues : input = [op |-> "query", arg |-> a]
    /\ output = NoOutput

NextArgument ==
    \/ ReadQueryArgument
    \/ ConvertQueryArgument

SpecArgument == InitArgument /\ [][NextArgument]_vars

\* some nested key of an argument value, at any depth, has no query
RECURSIVE InnerQueryAbsent(_)
InnerQueryAbsent(arg) ==
    \/ \E i \in 1..Len(arg.nested) : ~arg.nested[i].object \/ InnerQueryAbsent(arg.nested[i])
    \/ \E i \in 1..Len(arg.bool) : \E j \in 1..Len(arg.bool[i]) :
           InnerQueryAbsent(arg.bool[i][j])

\* some list under a bool key of an argument value, at any depth, has a
\* null entry
RECURSIVE ClauseAbsent(_)
ClauseAbsent(arg) ==
    \/ \E i \in 1..Len(arg.bool) : \E j \in 1..Len(arg.bool[i]) :
           ~arg.bool[i][j].object \/ ClauseAbsent(arg.bool[i][j])
    \/ \E i \in 1..Len(arg.nested) : ClauseAbsent(arg.nested[i])

\* C29: convertQueryInput, on every input convertToESQueryInput produces,
\* returns an error or a converted query and never reads a missing
\* sub-query; an argument with a missing inner query or a null clause is
\* answered with an error.
C29_ConversionTotal ==
    /\ output.op = "convertQueryInput"
       => /\ ~output.result.panic
          /\ output.result.err # "" \/ output.result.kinds # {}
    /\ (output.op = "convertToESQueryInput"
        /\ (InnerQueryAbsent(input.arg) \/ ClauseAbsent(input.arg)))
       => output.result.err # ""

\* a produced input whose nested query sets no kind was refused with an
\* error
C29_Witness ==
    /\ output.op = "convertQueryInput"
    /\ input.arg = ArgObject({}, <<>>, << ArgObject({}, <<>>, <<>>) >>)
    /\ ~output.result.panic
    /\ output.result.err = "failed to convert nested query"

-----------------------------------------------------------------------------
(* The searches of precompiled queries.  A precompiled query configuration *)
(* is reduced to what decides the request: what QueryBuilder does ("none": *)
(* nil, "ok", "nil": it returns nil), what QueryJSON holds ("none": empty, *)
(* "ok", "invalid"), whether the request they give has a query of its own, *)
(* and what RootQueryBuilder does ("none": nil, "ok", "error").            *)

PrecompiledResolverConfigs ==
    [QueryBuilder : {"none", "ok", "nil"}, QueryJSON : {"none", "ok", "invalid"},
     hasQuery : BOOLEAN, RootQueryBuilder : {"none", "ok", "error"}]

\* PrecompiledQueryConfig.LoadQuery
LoadQuery(cfg, httpReq) ==
    IF cfg.QueryBuilder = "nil" THEN ResolveError("QueryBuilder returned nil")
    ELSE IF cfg.QueryBuilder = "none" /\ cfg.QueryJSON = "invalid"
    THEN ResolveError("failed to unmarshal query JSON")
    ELSE IF cfg.QueryBuilder = "none" /\ cfg.QueryJSON = "none"
    THEN ResolveError("no query produced")
    ELSE IF cfg.RootQueryBuilder = "error" /\ httpReq
    THEN ResolveError("failed to build root query")
    ELSE Search("precompiled",
                mergeQueries(<< IF cfg.RootQueryBuilder = "ok" /\ httpReq
                                THEN "dynamic" ELSE "nil",
                                IF cfg.hasQuery THEN "request" ELSE "nil" >>),
                FALSE)

\* the resolver function BuildPrecompiledResolver returns: the request of
\* LoadQuery is the one the search executes
BuildPrecompiledResolver(cfg, httpReq) ==
    IF LoadQuery(cfg, httpReq).err # "" THEN ResolveError("failed to load query")
    ELSE LoadQuery(cfg, httpReq)

ResolvePrecompiled ==
    /\ input.op = "BuildPrecompiledResolver"
    /\ output = NoOutput
    /\ output' = [op |-> "BuildPrecompiledResolver",
                  result |-> BuildPrecompiledResolver(input.cfg, input.httpReq)]
    /\ UNCHANGED <<config, sg, pc, pending, queryFields, schema, sdl, resolved, service, input>>

\* the sample load of generatePrecompiledQueryField: LoadQuery without an
\* HTTP request, whose request is read for its aggregations and not sent
LoadSampleQuery ==
    /\ input.op = "generatePrecompiledQueryField"
    /\ output = NoOutput
    /\ output' = [op |-> "generatePrecompiledQueryField",
                  result |-> [LoadQuery(input.cfg, FALSE) EXCEPT !.executed = FALSE]]
    /\ UNCHANGED <<config, sg, pc, pending, queryFields, schema, sdl, resolved, service, input>>

InitPrecompiled ==
    /\ AtRest
    /\ \/ \E cfg \in PrecompiledResolverConfigs, h \in BOOLEAN :
             input = [op |-> "BuildPrecompiledResolver", cfg |-> cfg, httpReq |-> h]
       \/ \E cfg \in PrecompiledResolverConfigs :
             input = [op |-> "generatePrecompiledQueryField", cfg |-> cfg, httpReq |-> FALSE]
    /\ output = NoOutput

NextPrecompiled ==
    \/ ResolvePrecompiled
    \/ LoadSampleQuery

SpecPrecompiled == InitPrecompiled /\ [][NextPrecompiled]_vars

\* C30: every search executed by the resolver of a precompiled query
\* configured with a RootQueryBuilder has the builder's query among its must
\* clauses; without an HTTP request the resolver returns an error.
C30_PrecompiledSearchScoped ==
    (output.op = "BuildPrecompiledResolver" /\ input.cfg.RootQueryBuilder # "none")
    => /\ output.result.executed
          => \E i \in 1..Len(output.result.must) : output.result.must[i] = "dynamic"
       /\ ~input.httpReq => output.result.err # ""

====
